---- MODULE Spec2Model ----
(***************************************************************************)
(* Model of the web-codecs adapter: one engine handle (VideoDecoder or     *)
(* VideoEncoder) paired with its output sequence (VideoDecoded or          *)
(* VideoEncoded).  The host codec is a black box that invokes the          *)
(* registered on_error / on_frame closures at arbitrary times while the    *)
(* closures are alive.  The audio variants have the same closures and the  *)
(* same select in next()/frame().                                          *)
(***************************************************************************)
EXTENDS Integers, Sequences, FiniteSets, TLC

\* ------------------------------------------------------------------ bounds
MaxOutputs == 3
MaxErrors == 2
MaxReads == 4
MaxEncodes == 2
MaxTs == 2
EncMaxOutputs == 1
GopDuration == 2
CfgMaxOutputs == 3
MaxHandles == 3
MaxObjects == 3
MaxDim == 2
MaxInt == 2
MaxChunks == 2
MaxChunkLen == 2
MaxCap == 2
MaxPromises == 5
MaxCalls == 4
MaxWrites == 4
MaxHwm == 2

\* --------------------------------------------------------------- variables
VARIABLES
    kind,          \* which adapter was built: "decoder" or "encoder"
    maxGop,        \* VideoEncoderConfig.max_gop_duration : Option<Duration>
    engine,        \* TRUE while the VideoDecoder/VideoEncoder handle (and its closures) is alive
    consumer,      \* TRUE while the VideoDecoded/VideoEncoded handle is alive
    frames,        \* contents of the unbounded mpsc channel frames_tx -> frames_rx
    closedCell,    \* value held by the watch channel closed_tx -> closed_rx
    version,       \* version of the watch channel (bumped by every send_replace)
    seen,          \* version last observed by the watch receiver
    onConfig,      \* Rc<RefCell<Option<VideoDecoderConfig>>> shared config cell
    lastKeyframe,  \* Rc<RefCell<Option<Timestamp>>> last_keyframe
    pc,            \* "idle", or "pending" while a next()/frame() future is suspended
    results,       \* history: results returned by next()/frame(), oldest first
    delivered,     \* history: units passed to the on_frame closure, oldest first
    nCallbacks,    \* history: number of host output callbacks attempted
    nErrors,       \* history: number of host error callbacks
    nEncodes,      \* history: number of encode() calls
    lastEncode,    \* history: what the most recent encode() call saw and did
    lastKeyOut,    \* history: timestamp of the most recent key unit output by the host
    panicked,      \* TRUE once a Rust panic has aborted the program
    lastMeta,      \* history: the most recent decoderConfig metadata an output callback carried
    carried,       \* history: ids of the units whose output callback carried decoderConfig metadata
    configRead,    \* history: what the most recent VideoEncoded::config() call returned
    engineCloses,  \* host side: number of close() calls the host codec received
    lastCall,      \* history: the most recent decode()/flush()/queue_size() call and its result
    handles,       \* the VideoFrame / AudioData handles created so far, in creation order
    objects,       \* host side: the JS frame objects, each with its media resource and close() count
    callerOwned,   \* the JS frame objects handed out by AudioData::leak / Into<web_sys::VideoFrame>
    cfgIn,         \* a VideoDecoderConfig / VideoEncoderConfig value held by the caller
    validResult,   \* history: what is_valid() returned for cfgIn
    submitted,     \* host side: the configuration configure() received from build()/init()
    buildResult,   \* history: what build()/init() returned for cfgIn
    msgIn,         \* a value of a type deriving Message, with its type
    msgJs,         \* what into_message returned for msgIn
    msgTransfer,   \* the transferable array into_message was given
    msgOut,        \* what from_message returned for msgJs
    rdStream,      \* host side: the chunk lengths of the ReadableStream (bytes are numbered 1, 2, ...)
    rdPos,         \* host side: number of chunks the stream has handed to read requests
    rdErrored,     \* host side: TRUE once the ReadableStream is errored
    rdPromises,    \* the promises (each with its JsFuture) the Reader created, in creation order
    read,          \* Reader.read : Option<JsFuture>
    rdCall,        \* "idle", or "awaiting" while a read() future is suspended
    rdCalls,       \* history: number of read() calls
    rdReturned,    \* history: what completed read() / poll_read calls returned, oldest first
    wrErrored,     \* host side: TRUE once the WritableStream is errored
    wrPromises,    \* the write promises (each with its JsFuture) the writer created, in creation order
    write_promise, \* TypedWriter.write_promise : Option<JsFuture>
    wrCall,        \* the write() future in progress: its position, chunk and the promise it took
    wrCalls,       \* history: number of write() calls
    wrReturned,    \* history: the write() calls that returned, with their results
    hwm,           \* host side: the high water mark of the WritableStream
    sink,          \* host side: "open", "closing" once close() was called, then "closed"
    shut,          \* the task in poll_shutdown: "none", "pending", "woken", "ready" or "err"
    wrLast,        \* history: the most recent poll_write / poll_flush call and its result
    live,          \* the Rust handles (Reader, Writer, TypedWriter) of the stream whose Drop will run
    releases,      \* host side: number of releaseLock() calls the stream's reader / writer received
    lastTry        \* history: the most recent Writer::try_from(TypedWriter) and whether it was refused

vars == <<kind, maxGop, engine, consumer, frames, closedCell, version, seen,
          onConfig, lastKeyframe, pc, results, delivered, nCallbacks, nErrors,
          nEncodes, lastEncode, lastKeyOut, panicked, lastMeta, carried, configRead,
          engineCloses, lastCall, handles, objects, callerOwned, cfgIn,
          validResult, submitted, buildResult, msgIn, msgJs, msgTransfer,
          msgOut, rdStream, rdPos, rdErrored, rdPromises, read, rdCall, rdCalls,
          rdReturned, wrErrored, wrPromises, write_promise, wrCall, wrCalls,
          wrReturned, hwm, sink, shut, wrLast, live, releases, lastTry>>

\* The engine and its output sequence (all of it but the panic flag)
codec == <<kind, maxGop, engine, consumer, frames, closedCell, version, seen,
           onConfig, lastKeyframe, pc, results, delivered, nCallbacks, nErrors,
           nEncodes, lastEncode, lastKeyOut, lastMeta, carried, configRead,
           engineCloses>>

\* The frame handles and their host objects
frameVars == <<handles, objects, callerOwned>>

\* A configuration value and what was done with it
configVars == <<cfgIn, validResult, submitted, buildResult>>

\* A message and its conversions
messageVars == <<msgIn, msgJs, msgTransfer, msgOut>>

\* A Reader, its stream and its history
readerVars == <<rdStream, rdPos, rdErrored, rdPromises, read, rdCall, rdCalls,
                rdReturned>>

\* A TypedWriter, its stream and its history
writerVars == <<wrErrored, wrPromises, write_promise, wrCall, wrCalls, wrReturned>>

\* The WritableStream behind a TypedWriter used through AsyncWrite
sinkVars == <<hwm, sink, shut, wrLast>>

\* The handles holding the lock of a stream
lockVars == <<live, releases, lastTry>>

\* The state of the other crates
apart == <<messageVars, readerVars, writerVars, sinkVars, lockVars>>

\* The variables no callback and no operation of the output sequence touches
others == <<lastCall, frameVars, configVars, apart>>

\* ------------------------------------------------------------ value types
\* Option<Timestamp> / Option<Duration>
NoTs == [some |-> FALSE, val |-> 0]
SomeTs(t) == [some |-> TRUE, val |-> t]
\* Option<bool>
NoBool == [some |-> FALSE, val |-> FALSE]
SomeBool(b) == [some |-> TRUE, val |-> b]

\* Option::unwrap_or_default on Option<Timestamp>
UnwrapOrDefault(o) == IF o.some THEN o.val ELSE 0

\* crate::Error
NoError == [variant |-> "none", js |-> ""]
Dropped == [variant |-> "Dropped", js |-> ""]
\* impl From<JsValue> for Error
ErrorFrom(e) == [variant |-> "Unknown", js |-> e]

\* Result<(), Error> held by the watch channel
OkUnit == [ok |-> TRUE, err |-> NoError]
Err(e) == [ok |-> FALSE, err |-> e]

JsErrors == {"e1", "e2"}

\* An output unit (VideoFrame / EncodedFrame): id is the host's serial number
Unit(i, t, k) == [id |-> i, timestamp |-> t, keyframe |-> k]
NoUnit == Unit(0, 0, FALSE)

\* Host-side decoderConfig metadata (web_sys::VideoDecoderConfig) and the
\* adapter's VideoDecoderConfig
HostConfig(c, w, h) == [codec |-> c, codedWidth |-> w, codedHeight |-> h]
NoDims == [some |-> FALSE, width |-> 0, height |-> 0]
SomeDims(w, h) == [some |-> TRUE, width |-> w, height |-> h]
DecoderConfig(c, r) == [codec |-> c, resolution |-> r]
NoConfig == [some |-> FALSE, val |-> DecoderConfig("", NoDims)]
SomeConfig(c) == [some |-> TRUE, val |-> c]

\* impl From<web_sys::VideoDecoderConfig> for VideoDecoderConfig
DecoderConfigFrom(this) ==
    DecoderConfig(this.codec,
                  IF this.codedWidth # 0 /\ this.codedHeight # 0
                  THEN SomeDims(this.codedWidth, this.codedHeight)
                  ELSE NoDims)

\* The second argument of the encoder's output callback: not an object /
\* no (or falsy) decoderConfig, or an object carrying a decoderConfig.
NoMeta == [present |-> FALSE, config |-> HostConfig("", 0, 0)]
Meta(c) == [present |-> TRUE, config |-> c]
Metas == {NoMeta, Meta(HostConfig("avc1", 1, 1)), Meta(HostConfig("vp8", 0, 1))}

\* What VideoEncoded::config() returned (an owned Option<VideoDecoderConfig>)
NoRead == [called |-> FALSE, val |-> NoConfig]
ConfigRead(c) == [called |-> TRUE, val |-> c]

\* Result<Option<Unit>, Error> returned by next()/frame()
RSome(u) == [tag |-> "Some", unit |-> u, err |-> NoError]
RNone == [tag |-> "None", unit |-> NoUnit, err |-> NoError]
RErr(e) == [tag |-> "Err", unit |-> NoUnit, err |-> e]

\* --------------------------------------------------------- channel helpers
\* (mutant) a channel that hands out the newest unit first
SendFrameLifo(q, rxAlive, u) == IF rxAlive THEN <<u>> \o q ELSE q

\* (mutant) the unit is queued although the receiver is gone
SendFrameKeep(q, rxAlive, u) == Append(q, u)

\* mpsc::UnboundedSender::send: Err when the receiver is gone
SendFrame(q, rxAlive, u) == IF rxAlive THEN Append(q, u) ELSE q

\* (mutant) a write that resets the cell to Ok(())
SendReplaceOk(old, new) == OkUnit

\* (mutant) a cell that keeps the first error it was given
SendReplaceFirst(old, new) == IF old.ok THEN new ELSE old

\* watch::Sender::send_replace: stores the value unconditionally
SendReplace(old, new) == new

\* (mutant) the data branch also marks the pending change as seen
SelectNextSwallow(q, txAlive, ver, sn, cell) ==
    IF q # <<>>
    THEN [ready |-> TRUE, out |-> RSome(Head(q)), frames |-> Tail(q), seen |-> ver, panic |-> FALSE]
    ELSE IF ~txAlive
    THEN [ready |-> TRUE, out |-> RNone, frames |-> q, seen |-> sn, panic |-> FALSE]
    ELSE IF ver # sn
    THEN [ready |-> TRUE, out |-> RErr(cell.err), frames |-> q, seen |-> ver, panic |-> cell.ok]
    ELSE [ready |-> FALSE, out |-> RNone, frames |-> q, seen |-> sn, panic |-> FALSE]

\* (mutant) the select is biased towards the closure branch
SelectNextClosedFirst(q, txAlive, ver, sn, cell) ==
    IF txAlive /\ ver # sn
    THEN [ready |-> TRUE, out |-> RErr(cell.err), frames |-> q, seen |-> ver, panic |-> cell.ok]
    ELSE IF q # <<>>
    THEN [ready |-> TRUE, out |-> RSome(Head(q)), frames |-> Tail(q), seen |-> sn, panic |-> FALSE]
    ELSE IF ~txAlive
    THEN [ready |-> TRUE, out |-> RNone, frames |-> q, seen |-> sn, panic |-> FALSE]
    ELSE [ready |-> FALSE, out |-> RNone, frames |-> q, seen |-> sn, panic |-> FALSE]

\* (mutant) a select without the closure branch
SelectNextDataOnly(q, txAlive, ver, sn, cell) ==
    IF q # <<>>
    THEN [ready |-> TRUE, out |-> RSome(Head(q)), frames |-> Tail(q), seen |-> sn, panic |-> FALSE]
    ELSE IF ~txAlive
    THEN [ready |-> TRUE, out |-> RNone, frames |-> q, seen |-> sn, panic |-> FALSE]
    ELSE [ready |-> FALSE, out |-> RNone, frames |-> q, seen |-> sn, panic |-> FALSE]

\* (mutant) a closed channel reports the end before its queued units
SelectNextEndFirst(q, txAlive, ver, sn, cell) ==
    IF ~txAlive
    THEN [ready |-> TRUE, out |-> RNone, frames |-> q, seen |-> sn, panic |-> FALSE]
    ELSE IF q # <<>>
    THEN [ready |-> TRUE, out |-> RSome(Head(q)), frames |-> Tail(q), seen |-> sn, panic |-> FALSE]
    ELSE IF ver # sn
    THEN [ready |-> TRUE, out |-> RErr(cell.err), frames |-> q, seen |-> ver, panic |-> cell.ok]
    ELSE [ready |-> FALSE, out |-> RNone, frames |-> q, seen |-> sn, panic |-> FALSE]

\* The biased select of next()/frame(), one poll.
\*   q       contents of frames
\*   txAlive the senders (owned by the closures) are alive
\*   ver/sn  watch version and the version the receiver has seen
\*   cell    value of the watch channel
\* Result: whether the poll is Ready, the value returned, what is left in the
\* queue, the version seen afterwards, and whether unwrap() panicked.
SelectNext(q, txAlive, ver, sn, cell) ==
    IF q # <<>>
    THEN [ready |-> TRUE, out |-> RSome(Head(q)), frames |-> Tail(q), seen |-> sn, panic |-> FALSE]
    ELSE IF ~txAlive
    THEN [ready |-> TRUE, out |-> RNone, frames |-> q, seen |-> sn, panic |-> FALSE]
    ELSE IF ver # sn
    THEN [ready |-> TRUE, out |-> RErr(cell.err), frames |-> q, seen |-> ver, panic |-> cell.ok]
    ELSE [ready |-> FALSE, out |-> RNone, frames |-> q, seen |-> sn, panic |-> FALSE]

\* ------------------------------------------------------------ encode policy
\* (mutant) the GOP policy overrides an explicit key_frame = false
KeyFrameHintPolicyFirst(opt, gop, ts, lk) ==
    IF gop.some /\ ts - UnwrapOrDefault(lk) >= gop.val THEN SomeBool(TRUE)
    ELSE IF opt.some THEN SomeBool(opt.val)
    ELSE NoBool

\* The key-frame hint encode() hands to the host (o.key_frame)
KeyFrameHint(opt, gop, ts, lk) ==
    IF opt.some THEN SomeBool(opt.val)
    ELSE IF gop.some /\ ts - UnwrapOrDefault(lk) >= gop.val THEN SomeBool(TRUE)
    ELSE NoBool

\* The value of last_keyframe after encode()
EncodeLastKeyframe(opt, gop, ts, lk) ==
    IF opt.some THEN lk
    ELSE IF gop.some THEN SomeTs(ts)
    ELSE lk

\* std::time::Duration subtraction panics on underflow
EncodePanics(opt, gop, ts, lk) ==
    ~opt.some /\ gop.some /\ ts < UnwrapOrDefault(lk)

\* (mutant) every key unit is recorded, newer or not
OutputLastKeyframeAnyKey(u, lk) ==
    IF u.keyframe THEN SomeTs(u.timestamp) ELSE lk

\* on_frame of the encoder: last_keyframe after a unit has been output
OutputLastKeyframe(u, lk) ==
    IF u.keyframe /\ u.timestamp > UnwrapOrDefault(lk) THEN SomeTs(u.timestamp) ELSE lk

\* (mutant) the metadata argument is converted and stored even when it
\* carries no decoderConfig
OutputConfigEager(meta, cfg) ==
    SomeConfig(DecoderConfigFrom(meta.config))

\* (mutant) a new config is merged into the stored one: a resolution the new
\* one lacks is kept from the old one
OutputConfigMerge(meta, cfg) ==
    IF ~meta.present THEN cfg
    ELSE IF cfg.some /\ ~DecoderConfigFrom(meta.config).resolution.some
    THEN SomeConfig(DecoderConfig(meta.config.codec, cfg.val.resolution))
    ELSE SomeConfig(DecoderConfigFrom(meta.config))

\* (mutant) an output without metadata clears the cell
OutputConfigClear(meta, cfg) ==
    IF meta.present THEN SomeConfig(DecoderConfigFrom(meta.config)) ELSE NoConfig

\* (mutant) the output callback leaves the config cell for later
OutputConfigLate(meta, cfg) == cfg

\* on_frame of the encoder: the config cell after an output carrying meta
OutputConfig(meta, cfg) ==
    IF meta.present THEN SomeConfig(DecoderConfigFrom(meta.config)) ELSE cfg

\* The host codec is in state "closed": it closes itself when it reports an
\* error, and close() on a closed codec throws
HostCodecClosed == nErrors > 0

\* (mutant) the result of close() is unwrapped
EngineDropPanicsUnwrap(hostClosed) == hostClosed

\* impl Drop: let _ = self.inner.close(); an Err from close() is discarded
EngineDropPanics(hostClosed) == FALSE

\* What an engine method returns: the host's verdict passed through `?`
NoCall == [op |-> "none", result |-> OkUnit]
Call(o, r) == [op |-> o, result |-> r]
HostResult(hostOk) == IF hostOk THEN OkUnit ELSE Err(ErrorFrom("e1"))

\* Error::InvalidDimensions
InvalidDimensions == [variant |-> "InvalidDimensions", js |-> ""]

\* Option<Dimensions> values with width and height up to MaxDim
DimsOpt == {NoDims} \cup {SomeDims(w, h) : w \in 0..MaxDim, h \in 0..MaxDim}

\* VideoDecoderConfig / VideoEncoderConfig: the dimension pairs of a configuration
CodecConfig(k, r, d) == [kind |-> k, resolution |-> r, display |-> d]

\* VideoDecoderConfig: resolution and display are both Option<Dimensions>
DecoderConfigs == {CodecConfig("decoder", r, d) : r \in DimsOpt, d \in DimsOpt}

\* VideoEncoderConfig: resolution is Dimensions, display is Option<Dimensions>
EncoderConfigs == {CodecConfig("encoder", r, d) : r \in DimsOpt \ {NoDims}, d \in DimsOpt}

\* VideoDecoderConfig::new(codec): every optional field is None
VideoDecoderConfigNew == CodecConfig("decoder", NoDims, NoDims)

\* VideoEncoderConfig::new(codec, resolution)
VideoEncoderConfigNew(r) == CodecConfig("encoder", r, NoDims)

\* d.width == 0 || d.height == 0
ZeroDim(d) == d.width = 0 \/ d.height = 0

\* VideoDecoderConfig::is_valid: Option::map_or(true, ..) on both pairs
IsValidDecoder(c) ==
    IF (IF c.resolution.some THEN ZeroDim(c.resolution) ELSE TRUE)
    THEN Err(InvalidDimensions)
    ELSE IF (IF c.display.some THEN ZeroDim(c.display) ELSE TRUE)
    THEN Err(InvalidDimensions)
    ELSE OkUnit

\* VideoEncoderConfig::is_valid
IsValidEncoder(c) ==
    IF ZeroDim(c.resolution)
    THEN Err(InvalidDimensions)
    ELSE IF c.display.some /\ ZeroDim(c.display)
    THEN Err(InvalidDimensions)
    ELSE OkUnit

IsValid(c) == IF c.kind = "decoder" THEN IsValidDecoder(c) ELSE IsValidEncoder(c)

\* From<&VideoDecoderConfig> / From<&VideoEncoderConfig> for the host's
\* dictionary: a pair is set on the dictionary exactly when it is present
HostCodecConfig(c) ==
    [coded |-> IF c.kind = "encoder" \/ c.resolution.some
               THEN SomeDims(c.resolution.width, c.resolution.height)
               ELSE NoDims,
     display |-> IF c.display.some
                 THEN SomeDims(c.display.width, c.display.height)
                 ELSE NoDims]

\* What a call returned, or that it has not been made
NoOutcome == [called |-> FALSE, val |-> OkUnit]
Outcome(r) == [called |-> TRUE, val |-> r]

\* What the host's configure() received, or that it was not called
NoSubmit == [called |-> FALSE, config |-> [coded |-> NoDims, display |-> NoDims]]
Submit(hc) == [called |-> TRUE, config |-> hc]

\* A VideoFrame ("video") or AudioData ("audio") handle wrapping JS object o
Handle(ty, o) == [ty |-> ty, obj |-> o, state |-> "live", closeCalls |-> 0]

\* A JS frame object backed by media resource r
JsObject(r) == [res |-> r, closes |-> 0]

\* close() called on JS object o
Close(objs, o) == [objs EXCEPT ![o].closes = @ + 1]

\* The JS object has been closed (its [[Detached]] slot is set)
Detached(o) == objects[o].closes > 0

NoEncode == [called |-> FALSE, timestamp |-> 0, option |-> NoBool, gop |-> NoTs,
             lkBefore |-> NoTs, keyOutBefore |-> NoTs, hint |-> NoBool,
             lkAfter |-> NoTs, ok |-> FALSE]

\* -------------------------------------------------------------------- Init
\* State right after construction returned Ok((engine, output sequence))
Construct(k, gop) ==
    /\ kind = k
    /\ maxGop = gop
    /\ engine = TRUE
    /\ consumer = TRUE
    /\ frames = <<>>
    /\ closedCell = OkUnit
    /\ version = 0
    /\ seen = 0
    /\ onConfig = NoConfig
    /\ lastKeyframe = NoTs
    /\ pc = "idle"
    /\ results = <<>>
    /\ delivered = <<>>
    /\ nCallbacks = 0
    /\ nErrors = 0
    /\ nEncodes = 0
    /\ lastEncode = NoEncode
    /\ lastKeyOut = NoTs
    /\ panicked = FALSE
    /\ lastMeta = NoMeta
    /\ carried = {}
    /\ configRead = NoRead
    /\ engineCloses = 0
    /\ lastCall = NoCall

\* State before build()/init() is called: no engine and no output sequence
Unbuilt(k) ==
    /\ kind = k
    /\ maxGop = NoTs
    /\ engine = FALSE
    /\ consumer = FALSE
    /\ frames = <<>>
    /\ closedCell = OkUnit
    /\ version = 0
    /\ seen = 0
    /\ onConfig = NoConfig
    /\ lastKeyframe = NoTs
    /\ pc = "idle"
    /\ results = <<>>
    /\ delivered = <<>>
    /\ nCallbacks = 0
    /\ nErrors = 0
    /\ nEncodes = 0
    /\ lastEncode = NoEncode
    /\ lastKeyOut = NoTs
    /\ panicked = FALSE
    /\ lastMeta = NoMeta
    /\ carried = {}
    /\ configRead = NoRead
    /\ engineCloses = 0
    /\ lastCall = NoCall

\* ------------------------------------------------------------ web-message
\* Rust types that implement Message
Ty(t, fs, vs) == [t |-> t, fields |-> fs, variants |-> vs]
Field(n, T) == [name |-> n, ty |-> T]
TStr == Ty("String", <<>>, <<>>)
TInt == Ty("u32", <<>>, <<>>)
TBuf == Ty("ArrayBuffer", <<>>, <<>>)
TOpt(T) == Ty("Option", <<Field("0", T)>>, <<>>)
TStruct(fs) == Ty("struct", fs, <<>>)
UnitVariant(tag) == [tag |-> tag, shape |-> "unit", fields |-> <<>>]
NamedVariant(tag, fs) == [tag |-> tag, shape |-> "named", fields |-> fs]
TupleVariant(tag, T) == [tag |-> tag, shape |-> "tuple", fields |-> <<Field("0", T)>>]
TEnum(vs) == Ty("enum", <<>>, vs)

\* Rust values: a struct is the sequence of its field values, an enum value
\* its variant's tag with the variant's field values
Value(k, x, i, vs) == [k |-> k, s |-> x, n |-> i, items |-> vs]
Str(x) == Value("String", x, 0, <<>>)
U32(i) == Value("u32", "", i, <<>>)
Buf(i) == Value("ArrayBuffer", "", i, <<>>)
None == Value("None", "", 0, <<>>)
Some(v) == Value("Some", "", 0, <<v>>)
Struct(vs) == Value("struct", "", 0, vs)
Variant(tag, vs) == Value("variant", tag, 0, vs)

\* JS values
JsString(x) == [js |-> "string", s |-> x, n |-> 0, keys |-> <<>>, vals |-> <<>>]
JsNumber(x) == [js |-> "number", s |-> "", n |-> x, keys |-> <<>>, vals |-> <<>>]
JsBuffer(i) == [js |-> "ArrayBuffer", s |-> "", n |-> i, keys |-> <<>>, vals |-> <<>>]
JsNull == [js |-> "null", s |-> "", n |-> 0, keys |-> <<>>, vals |-> <<>>]
JsUndefined == [js |-> "undefined", s |-> "", n |-> 0, keys |-> <<>>, vals |-> <<>>]
JsObjectOf(ks, vs) == [js |-> "object", s |-> "", n |-> 0, keys |-> ks, vals |-> vs]

\* Object::try_from(&value) is Some, value.is_object()
IsObject(j) == j.js \in {"object", "ArrayBuffer"}

\* Reflect::get(obj, key): the property's value, undefined when it is missing
ReflectGet(obj, key) ==
    IF \E i \in 1..Len(obj.keys) : obj.keys[i] = key
    THEN obj.vals[CHOOSE i \in 1..Len(obj.keys) : obj.keys[i] = key]
    ELSE JsUndefined

\* Result<T, web_message::Error>; a list of fields travels as a struct value
MsgOk(v) == [ok |-> TRUE, val |-> v, err |-> ""]
MsgErr(e) == [ok |-> FALSE, val |-> None, err |-> e]

\* What into_message returns, with what it appended to the transferable array
Converted(j, tr) == [js |-> j, transfer |-> tr]

\* The variant of enum type T that value v is of
VariantOf(T, v) ==
    CHOOSE x \in {T.variants[i] : i \in 1..Len(T.variants)} : x.tag = v.s

RECURSIVE IntoJs(_, _)
\* JsValue::from(v) / v.into() of wasm-bindgen: None becomes undefined
IntoJs(T, v) ==
    IF T.t = "String" THEN JsString(v.s)
    ELSE IF T.t = "u32" THEN JsNumber(v.n)
    ELSE IF T.t = "ArrayBuffer" THEN JsBuffer(v.n)
    ELSE IF v.k = "Some" THEN IntoJs(T.fields[1].ty, v.items[1]) ELSE JsUndefined

RECURSIVE IntoMessage(_, _)
RECURSIVE IntoFields(_, _, _)
\* Message::into_message
IntoMessage(T, v) ==
    IF T.t \in {"String", "u32"} THEN Converted(IntoJs(T, v), <<>>)
    ELSE IF T.t = "ArrayBuffer" THEN Converted(JsBuffer(v.n), <<v.n>>)
    ELSE IF T.t = "Option"
    THEN IF v.k = "Some" THEN IntoMessage(T.fields[1].ty, v.items[1])
         ELSE Converted(JsNull, <<>>)
    ELSE IF T.t = "struct"
    THEN \* derived for a struct: every field is set with .into()
         Converted(JsObjectOf([i \in 1..Len(T.fields) |-> T.fields[i].name],
                              [i \in 1..Len(T.fields) |-> IntoJs(T.fields[i].ty, v.items[i])]),
                   <<>>)
    ELSE \* derived for an enum
         LET var == VariantOf(T, v) IN
         IF var.shape = "unit" THEN Converted(JsString(v.s), <<>>)
         ELSE IF var.shape = "tuple"
         THEN LET c == IntoMessage(var.fields[1].ty, v.items[1]) IN
              Converted(JsObjectOf(<<v.s>>, <<c.js>>), c.transfer)
         ELSE LET c == IntoFields(var.fields, v.items, Len(var.fields)) IN
              Converted(JsObjectOf(<<v.s>>, <<JsObjectOf(c.keys, c.vals)>>), c.transfer)

\* The first n named fields of an enum variant, converted with into_message in
\* declaration order
IntoFields(fs, vals, n) ==
    IF n = 0 THEN [keys |-> <<>>, vals |-> <<>>, transfer |-> <<>>]
    ELSE LET rest == IntoFields(fs, vals, n - 1)
             c == IntoMessage(fs[n].ty, vals[n]) IN
         [keys |-> Append(rest.keys, fs[n].name),
          vals |-> Append(rest.vals, c.js),
          transfer |-> rest.transfer \o c.transfer]

RECURSIVE FromMessage(_, _)
RECURSIVE FromFields(_, _, _)
\* Message::from_message
FromMessage(T, j) ==
    IF T.t = "String"
    THEN IF j.js = "string" THEN MsgOk(Str(j.s)) ELSE MsgErr("InvalidType")
    ELSE IF T.t = "u32"
    THEN IF j.js = "number" THEN MsgOk(U32(j.n)) ELSE MsgErr("InvalidType")
    ELSE IF T.t = "ArrayBuffer"
    THEN IF j.js = "ArrayBuffer" THEN MsgOk(Buf(j.n)) ELSE MsgErr("InvalidType")
    ELSE IF T.t = "Option"
    THEN IF j.js = "null" THEN MsgOk(None)
         ELSE LET r == FromMessage(T.fields[1].ty, j) IN
              IF r.ok THEN MsgOk(Some(r.val)) ELSE r
    ELSE IF T.t = "struct"
    THEN IF ~IsObject(j) THEN MsgErr("UnexpectedType")
         ELSE FromFields(T.fields, j, Len(T.fields))
    ELSE \* derived for an enum
         IF j.js = "string"
         THEN IF \E i \in 1..Len(T.variants) :
                    T.variants[i].shape = "unit" /\ T.variants[i].tag = j.s
              THEN MsgOk(Variant(j.s, <<>>))
              ELSE MsgErr("UnknownTag")
         ELSE IF ~IsObject(j) THEN MsgErr("UnexpectedType")
         ELSE IF Len(j.keys) # 1 THEN MsgErr("UnexpectedType")
         ELSE LET tag == j.keys[1]
                  val == j.vals[1]
                  known == {T.variants[i] : i \in 1..Len(T.variants)} IN
              IF ~\E x \in known : x.tag = tag /\ x.shape # "unit"
              THEN MsgErr("UnknownTag")
              ELSE LET var == CHOOSE x \in known : x.tag = tag /\ x.shape # "unit" IN
                   IF var.shape = "tuple"
                   THEN LET r == FromMessage(var.fields[1].ty, val) IN
                        IF r.ok THEN MsgOk(Variant(tag, <<r.val>>)) ELSE r
                   ELSE IF ~IsObject(val)
                   THEN MsgErr("UnexpectedType")
                   ELSE LET r == FromFields(var.fields, val, Len(var.fields)) IN
                        IF r.ok THEN MsgOk(Variant(tag, r.val.items)) ELSE r

\* The first n named fields read back with Reflect::get and from_message; a
\* field that fails gives InvalidField
FromFields(fs, obj, n) ==
    IF n = 0 THEN MsgOk(Struct(<<>>))
    ELSE LET rest == FromFields(fs, obj, n - 1) IN
         IF ~rest.ok THEN rest
         ELSE LET r == FromMessage(fs[n].ty, ReflectGet(obj, fs[n].name)) IN
              IF r.ok THEN MsgOk(Struct(Append(rest.val.items, r.val)))
              ELSE MsgErr("InvalidField")

\* The message types of the crate's tests, and a struct with an optional field
EventT == TStruct(<<Field("payload", TBuf), Field("width", TInt), Field("name", TStr)>>)
ConfigT == TStruct(<<Field("width", TInt), Field("height", TInt)>>)
NoteT == TStruct(<<Field("name", TOpt(TStr)), Field("payload", TBuf)>>)
CommandT ==
    TEnum(<<NamedVariant("Connect", <<Field("url", TStr)>>),
            NamedVariant("Frame", <<Field("name", TOpt(TStr)), Field("payload", TBuf)>>),
            UnitVariant("Close"),
            TupleVariant("Config", ConfigT)>>)

Strings == {Str("test"), Str("Close")}
Ints == {U32(i) : i \in 0..MaxInt}
Buffers == {Buf(1), Buf(2)}
OptStrings == {None} \cup {Some(x) : x \in Strings}

Typed(T, v) == [ty |-> T, val |-> v]

\* The messages converted
Messages ==
    {Typed(EventT, Struct(<<b, n, x>>)) : b \in Buffers, n \in Ints, x \in Strings}
    \cup {Typed(ConfigT, Struct(<<w, h>>)) : w \in Ints, h \in Ints}
    \cup {Typed(NoteT, Struct(<<o, b>>)) : o \in OptStrings, b \in Buffers}
    \cup {Typed(CommandT, Variant("Connect", <<x>>)) : x \in Strings}
    \cup {Typed(CommandT, Variant("Frame", <<o, b>>)) : o \in OptStrings, b \in Buffers}
    \cup {Typed(CommandT, Variant("Close", <<>>))}
    \cup {Typed(CommandT, Variant("Config", <<Struct(<<w, h>>)>>)) : w \in Ints, h \in Ints}

\* into_message / from_message not called yet, or what the call returned
NoJs == [called |-> FALSE, js |-> JsUndefined]
SomeJs(j) == [called |-> TRUE, js |-> j]
NoParse == [called |-> FALSE, res |-> MsgErr("")]
Parsed(r) == [called |-> TRUE, res |-> r]

\* ------------------------------------------------------------- web-streams
Min(a, b) == IF a <= b THEN a ELSE b

\* The streams: a sequence of chunk lengths; the bytes of a stream are 1, 2, ...
Streams == UNION {[1..n -> 0..MaxChunkLen] : n \in 0..MaxChunks}

RECURSIVE Offset(_, _)
\* Number of bytes stream s holds before its chunk i
Offset(s, i) == IF i <= 1 THEN 0 ELSE Offset(s, i - 1) + s[i - 1]

\* Chunk i of stream s, a Uint8Array
ChunkAt(s, i) == [j \in 1..s[i] |-> Offset(s, i) + j]

\* The bytes of the chunks of s after the first n chunks, in order
Rest(s, n) ==
    [j \in 1..(Offset(s, Len(s) + 1) - Offset(s, n + 1)) |-> Offset(s, n + 1) + j]

\* A promise with the JsFuture made from it: the promise is "pending",
\* "resolved" (settled, its reaction not run yet), "fulfilled" or "rejected";
\* taken is TRUE once a poll of the JsFuture has returned its result
HostRead == [state |-> "pending", taken |-> FALSE, host |-> TRUE, done |-> FALSE,
             value |-> <<>>]
PromiseResolve(array) == [state |-> "resolved", taken |-> FALSE, host |-> FALSE,
                          done |-> FALSE, value |-> array]
Fulfilled(p, done, value) == [p EXCEPT !.state = "fulfilled", !.done = done,
                                       !.value = value]
Rejected(p) == [p EXCEPT !.state = "rejected"]
Taken(p) == [p EXCEPT !.taken = TRUE]

\* What a poll of the JsFuture returns
IsReady(p) == p.state \in {"fulfilled", "rejected"} /\ ~p.taken

\* Option<JsFuture>
NoFuture == [some |-> FALSE, p |-> 0]
Future(i) == [some |-> TRUE, p |-> i]

\* Result<Option<T>, Error> of read(); poll_read's Ready with the bytes it filled
OkSome(v) == [ok |-> TRUE, some |-> TRUE, val |-> v]
OkNone == [ok |-> TRUE, some |-> FALSE, val |-> <<>>]
ReadError == [ok |-> FALSE, some |-> FALSE, val |-> <<>>]
ReadyFilled(bytes) == [ok |-> TRUE, some |-> TRUE, val |-> bytes]

\* if self.read.is_none()
NeedsReadAlways(r) == TRUE
NeedsRead(r) == ~r.some

\* std::cmp::min(buf.remaining(), array_len)
CopyLen(remaining, array_len) == Min(remaining, array_len)

\* array.slice(len, array_len)
LeftoverSkip(array, len) == SubSeq(array, len + 2, Len(array))
Leftover(array, len) == SubSeq(array, len + 1, Len(array))

\* (mutant) a host that settles the newest request first
Newest(ps) ==
    CHOOSE i \in 1..Len(ps) :
        /\ ps[i].state = "pending"
        /\ \A j \in (i + 1)..Len(ps) : ps[j].state # "pending"

\* The oldest request of ps the host has not settled
Oldest(ps) ==
    CHOOSE i \in 1..Len(ps) :
        /\ ps[i].state = "pending"
        /\ \A j \in 1..(i - 1) : ps[j].state # "pending"

\* A write promise for chunk v, with its JsFuture
HostWrite(v) == [state |-> "pending", taken |-> FALSE, v |-> v]

\* self.write_promise.take(), awaited before the chunk is written
AwaitedNone(wp) == NoFuture
Awaited(wp) == wp

\* The write() future: not running, or suspended on the promise it took
\* ("awaitOld") or on its own write ("awaitOwn")
NoWrite == [pos |-> "idle", v |-> 0, old |-> 0]
Writing(pos, v, old) == [pos |-> pos, v |-> v, old |-> old]

\* Result<(), Error> of write(v)
WriteResult(v, ok) == [v |-> v, ok |-> ok]

\* Result<Option<f64>, JsValue> of writer.desired_size()
NoSize == [some |-> FALSE, val |-> 0]
Size(n) == [some |-> TRUE, val |-> n]

\* The writes of ps the host has not completed
InFlight(ps) == {i \in 1..Len(ps) : ps[i].state = "pending"}

\* self.inner.desired_size(): unavailable once the stream is errored, 0 once
\* it is closed, else the high water mark less the chunks queued
DesiredSize ==
    IF wrErrored THEN NoSize
    ELSE IF sink = "closed" THEN Size(0)
    ELSE Size(hwm - Cardinality(InFlight(wrPromises)))

\* !(desired_size < 1f64)
WritableAlways(desired_size) == TRUE
Writable(desired_size) == desired_size >= 1

\* Pin::new(promise).poll(cx) on the stored promise: "none" if nothing is stored
PollStored(ps, wp) ==
    IF ~wp.some THEN "none"
    ELSE IF ~IsReady(ps[wp.p]) THEN "pending"
    ELSE IF ps[wp.p].state = "fulfilled" THEN "ok"
    ELSE "err"

\* The promises and the slot after a poll of the stored promise with result st
AfterPoll(ps, wp, st) ==
    IF st \in {"ok", "err"}
    THEN [promises |-> [ps EXCEPT ![wp.p].taken = TRUE], slot |-> NoFuture]
    ELSE [promises |-> ps, slot |-> wp]

\* JsFuture::from(p) of a promise p that is settled or not: its reaction has
\* not run yet
JsFutureFrom(settled) ==
    [state |-> IF settled THEN "resolved" ELSE "pending", taken |-> FALSE, v |-> 0]

\* What poll_write / poll_flush returned: Ready(Ok(n)) for chunk v ("ok", or
\* "zero" for Ok(0)), Ready(Ok(())) ("ok"), Pending, the BrokenPipe error
\* ("broken") or another error ("err"); tick tells one call from the next
NoPoll == [op |-> "none", res |-> "none", v |-> 0, tick |-> FALSE]
Polled(op, res, v, last) == [op |-> op, res |-> res, v |-> v, tick |-> ~last.tick]

\* A WritableStream nobody has written to through AsyncWrite
NoSink ==
    /\ sink = "open"
    /\ shut = "none"
    /\ wrLast = NoPoll

\* Err(value) of Writer::try_from(value), or Ok(Writer); tick tells one call
\* from the next
NoTry == [refused |-> FALSE, tick |-> FALSE]
Tried(refused, last) == [refused |-> refused, tick |-> ~last.tick]

\* ManuallyDrop::new(value): the handle is gone and its Drop never runs
ForgetHandleKeep(hs, h) == hs
ForgetHandle(hs, h) == hs \ {h}

\* The handles hs hold the lock of the stream, nothing released yet
Locked(hs) ==
    /\ live = hs
    /\ releases = 0
    /\ lastTry = NoTry

\* A Reader that has read nothing
NoReader ==
    /\ rdPos = 0
    /\ rdErrored = FALSE
    /\ rdPromises = <<>>
    /\ read = NoFuture
    /\ rdCall = "idle"
    /\ rdCalls = 0
    /\ rdReturned = <<>>

\* A TypedWriter that has written nothing
NoWriter ==
    /\ wrErrored = FALSE
    /\ wrPromises = <<>>
    /\ write_promise = NoFuture
    /\ wrCall = NoWrite
    /\ wrCalls = 0
    /\ wrReturned = <<>>

\* No message has been converted
NoMessage ==
    /\ msgJs = NoJs
    /\ msgTransfer = <<>>
    /\ msgOut = NoParse

\* The other crates are not in use
Idle ==
    /\ msgIn = Typed(TStr, Str(""))
    /\ NoMessage
    /\ rdStream = <<>>
    /\ NoReader
    /\ NoWriter
    /\ hwm = 1
    /\ NoSink
    /\ Locked({})

\* No frame handle exists yet
NoFrameHandles ==
    /\ handles = <<>>
    /\ objects = <<>>
    /\ callerOwned = {}

\* The caller holds configuration c and has not called anything on it
Holding(c) ==
    /\ cfgIn = c
    /\ validResult = NoOutcome
    /\ submitted = NoSubmit
    /\ buildResult = NoOutcome

\* VideoDecoderConfig::build
Init == Construct("decoder", NoTs) /\ NoFrameHandles /\ Idle /\ Holding(VideoDecoderConfigNew)

\* VideoEncoderConfig::init, with or without max_gop_duration
EncInit ==
    /\ \E gop \in {NoTs, SomeTs(GopDuration)} : Construct("encoder", gop)
    /\ NoFrameHandles
    /\ Idle
    /\ Holding(VideoEncoderConfigNew(SomeDims(1, 1)))

\* ----------------------------------------------------------------- actions
\* The host invokes the on_error closure with JS value e
OnError(e) ==
    /\ ~panicked /\ engine
    /\ nErrors < MaxErrors
    /\ closedCell' = SendReplace(closedCell, Err(ErrorFrom(e)))
    /\ version' = version + 1
    /\ nErrors' = nErrors + 1
    /\ UNCHANGED <<kind, maxGop, engine, consumer, frames, seen, onConfig,
                   lastKeyframe, pc, results, delivered, nCallbacks, nEncodes,
                   lastEncode, lastKeyOut, panicked>>
    /\ UNCHANGED <<lastMeta, carried, configRead, engineCloses, others>>

\* Tail of both on_frame closures: send, and record Dropped if the receiver is gone
SendOrDropped(u) ==
    /\ frames' = SendFrame(frames, consumer, u)
    /\ IF consumer
       THEN UNCHANGED <<closedCell, version>>
       ELSE /\ closedCell' = SendReplace(closedCell, Err(Dropped))
            /\ version' = version + 1

\* The host invokes the decoder's on_frame closure
DecoderOnFrame ==
    /\ ~panicked /\ engine /\ kind = "decoder"
    /\ nCallbacks < MaxOutputs
    /\ LET u == Unit(nCallbacks + 1, 0, FALSE) IN
       /\ SendOrDropped(u)
       /\ delivered' = Append(delivered, u)
    /\ nCallbacks' = nCallbacks + 1
    /\ UNCHANGED <<kind, maxGop, engine, consumer, seen, onConfig, lastKeyframe,
                   pc, results, nErrors, nEncodes, lastEncode, lastKeyOut, panicked>>
    /\ UNCHANGED <<lastMeta, carried, configRead, engineCloses, others>>

\* The encoder's on_frame closure, invoked with a unit (timestamp t, key flag
\* k) and the metadata argument meta
EncoderOnFrameBody(t, k, meta) ==
    /\ ~panicked /\ engine /\ kind = "encoder"
    /\ LET u == Unit(nCallbacks + 1, t, k) IN
       /\ onConfig' = OutputConfig(meta, onConfig)
       /\ lastKeyframe' = OutputLastKeyframe(u, lastKeyframe)
       /\ SendOrDropped(u)
       /\ delivered' = Append(delivered, u)
       /\ lastKeyOut' = IF k THEN SomeTs(t) ELSE lastKeyOut
    /\ lastMeta' = IF meta.present THEN meta ELSE lastMeta
    /\ carried' = IF meta.present THEN carried \cup {nCallbacks + 1} ELSE carried
    /\ nCallbacks' = nCallbacks + 1
    /\ UNCHANGED <<kind, maxGop, engine, consumer, seen, pc, results, nErrors,
                   nEncodes, lastEncode, panicked>>
    /\ UNCHANGED <<configRead, engineCloses, others>>

\* The host invokes the encoder's on_frame closure
EncoderOnFrame(t, k, meta) ==
    /\ nCallbacks < EncMaxOutputs
    /\ EncoderOnFrameBody(t, k, meta)

\* The host invokes the encoder's on_frame closure (negotiated-config runs)
ConfigOnFrame(k, meta) ==
    /\ nCallbacks < CfgMaxOutputs
    /\ EncoderOnFrameBody(0, k, meta)

\* VideoEncoded::config(): an owned clone of the cell's content
ConfigCall ==
    /\ ~panicked /\ consumer /\ kind = "encoder"
    /\ configRead' = ConfigRead(onConfig)
    /\ UNCHANGED <<kind, maxGop, engine, consumer, frames, closedCell, version,
                   seen, onConfig, lastKeyframe, pc, results, delivered,
                   nCallbacks, nErrors, nEncodes, lastEncode, lastKeyOut,
                   panicked, lastMeta, carried>>
    /\ UNCHANGED <<engineCloses, others>>

\* The host invokes a callback after the engine handle (and the closures) was
\* dropped: the closure is gone, nothing of the adapter runs.
InertCallback ==
    /\ ~panicked /\ ~engine
    /\ nCallbacks < MaxOutputs
    /\ nCallbacks' = nCallbacks + 1
    /\ UNCHANGED <<kind, maxGop, engine, consumer, frames, closedCell, version,
                   seen, onConfig, lastKeyframe, pc, results, delivered, nErrors,
                   nEncodes, lastEncode, lastKeyOut, panicked>>
    /\ UNCHANGED <<lastMeta, carried, configRead, engineCloses, others>>

\* One poll of the next()/frame() future
Poll ==
    LET r == SelectNext(frames, engine, version, seen, closedCell) IN
    IF r.ready /\ r.panic
    THEN /\ panicked' = TRUE
         /\ pc' = "idle"
         /\ UNCHANGED <<frames, seen, results>>
    ELSE IF r.ready
    THEN /\ results' = Append(results, r.out)
         /\ frames' = r.frames
         /\ seen' = r.seen
         /\ pc' = "idle"
         /\ UNCHANGED panicked
    ELSE /\ pc' = "pending"
         /\ UNCHANGED <<frames, seen, results, panicked>>

\* The consumer calls next()/frame() and polls it for the first time
NextCall ==
    /\ ~panicked /\ consumer /\ pc = "idle"
    /\ Len(results) < MaxReads
    /\ Poll
    /\ UNCHANGED <<kind, maxGop, engine, consumer, closedCell, version, onConfig,
                   lastKeyframe, delivered, nCallbacks, nErrors, nEncodes,
                   lastEncode, lastKeyOut>>
    /\ UNCHANGED <<lastMeta, carried, configRead, engineCloses, others>>

\* A suspended next()/frame() future is woken and polled again
NextWake ==
    /\ ~panicked /\ consumer /\ pc = "pending"
    /\ SelectNext(frames, engine, version, seen, closedCell).ready
    /\ Poll
    /\ UNCHANGED <<kind, maxGop, engine, consumer, closedCell, version, onConfig,
                   lastKeyframe, delivered, nCallbacks, nErrors, nEncodes,
                   lastEncode, lastKeyOut>>
    /\ UNCHANGED <<lastMeta, carried, configRead, engineCloses, others>>

\* The caller drops a suspended next()/frame() future: both branches of the
\* select are cancel safe, nothing is consumed
CancelNext ==
    /\ ~panicked /\ consumer /\ pc = "pending"
    /\ pc' = "idle"
    /\ UNCHANGED <<kind, maxGop, engine, consumer, frames, closedCell, version,
                   seen, onConfig, lastKeyframe, results, delivered, nCallbacks,
                   nErrors, nEncodes, lastEncode, lastKeyOut, panicked>>
    /\ UNCHANGED <<lastMeta, carried, configRead, engineCloses, others>>

\* impl Drop for VideoDecoder / VideoEncoder: close the host codec once,
\* whatever close() returns; the closures and with them every sender are
\* dropped
DropEngine ==
    /\ ~panicked /\ engine
    /\ engine' = FALSE
    /\ engineCloses' = engineCloses + 1
    /\ panicked' = EngineDropPanics(HostCodecClosed)
    /\ UNCHANGED <<kind, maxGop, consumer, frames, closedCell, version, seen,
                   onConfig, lastKeyframe, pc, results, delivered, nCallbacks,
                   nErrors, nEncodes, lastEncode, lastKeyOut>>
    /\ UNCHANGED <<lastMeta, carried, configRead, others>>

\* The VideoDecoded / VideoEncoded handle is dropped: both receivers go away
\* and the queued units with them
DropConsumer ==
    /\ ~panicked /\ consumer /\ pc = "idle"
    /\ consumer' = FALSE
    /\ frames' = <<>>
    /\ UNCHANGED <<kind, maxGop, engine, closedCell, version, seen, onConfig,
                   lastKeyframe, pc, results, delivered, nCallbacks, nErrors,
                   nEncodes, lastEncode, lastKeyOut, panicked>>
    /\ UNCHANGED <<lastMeta, carried, configRead, engineCloses, others>>

\* VideoEncoder::encode(frame, options); hostOk is the host's verdict
Encode(ts, opt, hostOk) ==
    /\ ~panicked /\ engine /\ kind = "encoder"
    /\ nEncodes < MaxEncodes
    /\ nEncodes' = nEncodes + 1
    /\ IF EncodePanics(opt, maxGop, ts, lastKeyframe)
       THEN /\ panicked' = TRUE
            /\ UNCHANGED <<lastKeyframe, lastEncode>>
       ELSE /\ lastKeyframe' = EncodeLastKeyframe(opt, maxGop, ts, lastKeyframe)
            /\ lastEncode' = [called |-> TRUE, timestamp |-> ts, option |-> opt,
                              gop |-> maxGop, lkBefore |-> lastKeyframe,
                              keyOutBefore |-> lastKeyOut,
                              hint |-> KeyFrameHint(opt, maxGop, ts, lastKeyframe),
                              lkAfter |-> EncodeLastKeyframe(opt, maxGop, ts, lastKeyframe),
                              ok |-> hostOk]
            /\ UNCHANGED panicked
    /\ UNCHANGED <<kind, maxGop, engine, consumer, frames, closedCell, version,
                   seen, onConfig, pc, results, delivered, nCallbacks, nErrors,
                   lastKeyOut>>
    /\ UNCHANGED <<lastMeta, carried, configRead, engineCloses, others>>

\* VideoDecoder::decode(frame); hostOk is the host's verdict on the chunk
Decode(hostOk) ==
    /\ ~panicked /\ engine /\ kind = "decoder"
    /\ lastCall' = Call("decode", HostResult(hostOk))
    /\ UNCHANGED <<codec, panicked, frameVars, configVars>>
    /\ UNCHANGED apart

\* flush().await of either engine; hostOk is how the host settles the promise
Flush(hostOk) ==
    /\ ~panicked /\ engine
    /\ lastCall' = Call("flush", HostResult(hostOk))
    /\ UNCHANGED <<codec, panicked, frameVars, configVars>>
    /\ UNCHANGED apart

\* queue_size() of either engine: the host's counter, no failure path
QueueSize ==
    /\ ~panicked /\ engine
    /\ lastCall' = Call("queue_size", OkUnit)
    /\ UNCHANGED <<codec, panicked, frameVars, configVars>>
    /\ UNCHANGED apart

\* From<web_sys::VideoFrame> / From<web_sys::AudioData>: wrap a fresh host frame
FrameFrom(ty) ==
    /\ ~panicked
    /\ Len(handles) < MaxHandles /\ Len(objects) < MaxObjects
    /\ objects' = Append(objects, JsObject(Len(objects) + 1))
    /\ handles' = Append(handles, Handle(ty, Len(objects) + 1))
    /\ UNCHANGED <<codec, panicked, callerOwned, lastCall, configVars>>
    /\ UNCHANGED apart

\* Clone for VideoFrame: the host's clone() makes a new JS object on the same
\* media resource; expect("detached") panics if the object was closed
VideoFrameClone(h) ==
    /\ ~panicked
    /\ handles[h].state = "live" /\ handles[h].ty = "video"
    /\ Len(handles) < MaxHandles /\ Len(objects) < MaxObjects
    /\ IF Detached(handles[h].obj)
       THEN /\ panicked' = TRUE
            /\ UNCHANGED <<handles, objects>>
       ELSE /\ objects' = Append(objects, JsObject(objects[handles[h].obj].res))
            /\ handles' = Append(handles, Handle("video", Len(objects) + 1))
            /\ UNCHANGED panicked
    /\ UNCHANGED <<codec, callerOwned, lastCall, configVars>>
    /\ UNCHANGED apart

\* Clone for AudioData: Option<web_sys::AudioData>::clone copies the reference
\* to the same JS object
AudioDataClone(h) ==
    /\ ~panicked
    /\ handles[h].state = "live" /\ handles[h].ty = "audio"
    /\ Len(handles) < MaxHandles
    /\ handles' = Append(handles, Handle("audio", handles[h].obj))
    /\ UNCHANGED <<codec, panicked, objects, callerOwned, lastCall, configVars>>
    /\ UNCHANGED apart

\* Drop for VideoFrame / AudioData: close() on the wrapped JS object
FrameDrop(h) ==
    /\ ~panicked
    /\ handles[h].state = "live"
    /\ objects' = Close(objects, handles[h].obj)
    /\ handles' = [handles EXCEPT ![h].state = "dropped", ![h].closeCalls = @ + 1]
    /\ UNCHANGED <<codec, panicked, callerOwned, lastCall, configVars>>
    /\ UNCHANGED apart

\* AudioData::leak: take() the inner object and return it; the handle is then
\* dropped holding None, which closes nothing
AudioDataLeak(h) ==
    /\ ~panicked
    /\ handles[h].state = "live" /\ handles[h].ty = "audio"
    /\ callerOwned' = callerOwned \cup {handles[h].obj}
    /\ handles' = [handles EXCEPT ![h].state = "leaked"]
    /\ UNCHANGED <<codec, panicked, objects, lastCall, configVars>>
    /\ UNCHANGED apart

\* From<VideoFrame> for web_sys::VideoFrame: return the host's clone() of the
\* wrapped object, then the handle is dropped and closes the wrapped object
VideoFrameInto(h) ==
    /\ ~panicked
    /\ handles[h].state = "live" /\ handles[h].ty = "video"
    /\ Len(objects) < MaxObjects
    /\ IF Detached(handles[h].obj)
       THEN /\ panicked' = TRUE
            /\ UNCHANGED <<handles, objects, callerOwned>>
       ELSE /\ objects' = Close(Append(objects, JsObject(objects[handles[h].obj].res)),
                                handles[h].obj)
            /\ callerOwned' = callerOwned \cup {Len(objects) + 1}
            /\ handles' = [handles EXCEPT ![h].state = "converted",
                                          ![h].closeCalls = @ + 1]
            /\ UNCHANGED panicked
    /\ UNCHANGED <<codec, lastCall, configVars>>
    /\ UNCHANGED apart

\* is_valid() on the configuration the caller holds
IsValidCall ==
    /\ ~panicked /\ ~buildResult.called
    /\ validResult' = Outcome(IsValid(cfgIn))
    /\ UNCHANGED <<codec, panicked, lastCall, frameVars, cfgIn, submitted, buildResult>>
    /\ UNCHANGED apart

\* The engine-side variables build() / init() leaves alone
built == <<kind, maxGop, seen, onConfig, lastKeyframe, pc, results, delivered,
           nCallbacks, nErrors, nEncodes, lastEncode, lastKeyOut, lastMeta, carried,
           configRead, engineCloses>>

\* build() / init() on the configuration the caller holds: the channels are
\* created, the host codec is constructed (newOk: the constructor returns
\* normally; its result is unwrapped) and configured (hostOk: configure()
\* returns normally; its Err is returned with `?`)
Build(newOk, hostOk) ==
    /\ ~panicked /\ ~buildResult.called /\ ~engine
    /\ IF ~newOk
       THEN /\ panicked' = TRUE
            /\ UNCHANGED <<submitted, buildResult, engine, consumer>>
       ELSE /\ submitted' = Submit(HostCodecConfig(cfgIn))
            /\ buildResult' = Outcome(HostResult(hostOk))
            /\ engine' = hostOk
            /\ consumer' = hostOk
            /\ UNCHANGED panicked
    /\ frames' = <<>>
    /\ closedCell' = OkUnit
    /\ version' = 0
    /\ UNCHANGED <<built, lastCall, frameVars, cfgIn, validResult>>
    /\ UNCHANGED apart

\* m.into_message(&mut transferable) on a fresh transferable array
IntoMessageCall ==
    /\ ~msgJs.called
    /\ LET c == IntoMessage(msgIn.ty, msgIn.val) IN
       /\ msgJs' = SomeJs(c.js)
       /\ msgTransfer' = c.transfer
    /\ UNCHANGED <<codec, panicked, lastCall, frameVars, configVars, msgIn, msgOut,
                   readerVars, writerVars, sinkVars, lockVars>>

\* T::from_message(obj) on what into_message returned
FromMessageCall ==
    /\ msgJs.called /\ ~msgOut.called
    /\ msgOut' = Parsed(FromMessage(msgIn.ty, msgJs.js))
    /\ UNCHANGED <<codec, panicked, lastCall, frameVars, configVars, msgIn, msgJs,
                   msgTransfer, readerVars, writerVars, sinkVars, lockVars>>

\* The host answers the oldest read request: the next chunk, done, or an error
HostReadSettle(ok) ==
    /\ \E i \in 1..Len(rdPromises) : rdPromises[i].state = "pending"
    /\ LET i == Oldest(rdPromises) IN
       IF rdErrored \/ ~ok
       THEN /\ rdPromises' = [rdPromises EXCEPT ![i] = Rejected(@)]
            /\ rdErrored' = TRUE
            /\ UNCHANGED rdPos
       ELSE IF rdPos < Len(rdStream)
       THEN /\ rdPromises' = [rdPromises EXCEPT
                                 ![i] = Fulfilled(@, FALSE, ChunkAt(rdStream, rdPos + 1))]
            /\ rdPos' = rdPos + 1
            /\ UNCHANGED rdErrored
       ELSE /\ rdPromises' = [rdPromises EXCEPT ![i] = Fulfilled(@, TRUE, <<>>)]
            /\ UNCHANGED <<rdPos, rdErrored>>
    /\ UNCHANGED <<rdStream, read, rdCall, rdCalls, rdReturned>>
    /\ UNCHANGED <<codec, panicked, lastCall, frameVars, configVars, messageVars,
                   writerVars, sinkVars, lockVars>>

\* The reaction of a promise made by Promise::resolve runs: its JsFuture is ready
Microtask ==
    /\ \E i \in 1..Len(rdPromises) :
          /\ rdPromises[i].state = "resolved"
          /\ rdPromises' = [rdPromises EXCEPT ![i] = Fulfilled(@, @.done, @.value)]
    /\ UNCHANGED <<rdStream, rdPos, rdErrored, read, rdCall, rdCalls, rdReturned>>
    /\ UNCHANGED <<codec, panicked, lastCall, frameVars, configVars, messageVars,
                   writerVars, sinkVars, lockVars>>

\* reader.read() is called and polled up to its await
ReadStart ==
    /\ rdCall = "idle"
    /\ rdCalls < MaxCalls
    /\ rdCalls' = rdCalls + 1
    /\ rdCall' = "awaiting"
    /\ IF NeedsRead(read)
       THEN /\ Len(rdPromises) < MaxPromises
            /\ rdPromises' = Append(rdPromises, HostRead)
            /\ read' = Future(Len(rdPromises) + 1)
       ELSE UNCHANGED <<rdPromises, read>>
    /\ UNCHANGED <<rdStream, rdPos, rdErrored, rdReturned>>
    /\ UNCHANGED <<codec, panicked, lastCall, frameVars, configVars, messageVars,
                   writerVars, sinkVars, lockVars>>

\* The suspended read() future is polled and the stored JsFuture is ready
ReadPoll ==
    /\ rdCall = "awaiting"
    /\ read.some
    /\ IsReady(rdPromises[read.p])
    /\ LET p == rdPromises[read.p] IN
       /\ rdPromises' = [rdPromises EXCEPT ![read.p] = Taken(@)]
       /\ IF p.state = "rejected"
          THEN /\ rdReturned' = Append(rdReturned, ReadError)
               /\ UNCHANGED read
          ELSE /\ read' = NoFuture
               /\ rdReturned' = Append(rdReturned,
                                       IF p.done THEN OkNone ELSE OkSome(p.value))
    /\ rdCall' = "idle"
    /\ UNCHANGED <<rdStream, rdPos, rdErrored, rdCalls>>
    /\ UNCHANGED <<codec, panicked, lastCall, frameVars, configVars, messageVars,
                   writerVars, sinkVars, lockVars>>

\* The suspended read() future is dropped
ReadCancel ==
    /\ rdCall = "awaiting"
    /\ rdCall' = "idle"
    /\ UNCHANGED <<rdStream, rdPos, rdErrored, rdPromises, read, rdCalls, rdReturned>>
    /\ UNCHANGED <<codec, panicked, lastCall, frameVars, configVars, messageVars,
                   writerVars, sinkVars, lockVars>>

\* poll_read(cx, buf) with cap bytes remaining in buf
PollRead(cap) ==
    /\ rdCall = "idle"
    /\ LET issue == NeedsRead(read)
           ps == IF issue THEN Append(rdPromises, HostRead) ELSE rdPromises
           i == IF issue THEN Len(ps) ELSE read.p
           p == ps[i]
           len == CopyLen(cap, Len(p.value))
           leftover == Leftover(p.value, len)
       IN
       /\ issue => Len(rdPromises) < MaxPromises
       /\ IF ~IsReady(p)
          THEN /\ rdPromises' = ps
               /\ read' = Future(i)
               /\ UNCHANGED rdReturned
          ELSE IF p.state = "rejected"
          THEN /\ rdPromises' = [ps EXCEPT ![i] = Taken(@)]
               /\ read' = NoFuture
               /\ rdReturned' = Append(rdReturned, ReadError)
          ELSE IF p.done
          THEN /\ rdPromises' = [ps EXCEPT ![i] = Taken(@)]
               /\ read' = NoFuture
               /\ rdReturned' = Append(rdReturned, ReadyFilled(<<>>))
          ELSE /\ rdReturned' = Append(rdReturned, ReadyFilled(SubSeq(p.value, 1, len)))
               /\ IF len < Len(p.value)
                  THEN /\ Len(ps) < MaxPromises
                       /\ rdPromises' = Append([ps EXCEPT ![i] = Taken(@)],
                                               PromiseResolve(leftover))
                       /\ read' = Future(Len(ps) + 1)
                  ELSE /\ rdPromises' = [ps EXCEPT ![i] = Taken(@)]
                       /\ read' = NoFuture
    /\ UNCHANGED <<rdStream, rdPos, rdErrored, rdCall, rdCalls>>
    /\ UNCHANGED <<codec, panicked, lastCall, frameVars, configVars, messageVars,
                   writerVars, sinkVars, lockVars>>

\* The host completes the oldest write it was given, or fails it
HostWriteSettle(ok) ==
    /\ \E i \in 1..Len(wrPromises) : wrPromises[i].state = "pending"
    /\ LET i == Oldest(wrPromises) IN
       IF wrErrored \/ ~ok
       THEN /\ wrPromises' = [wrPromises EXCEPT ![i].state = "rejected"]
            /\ wrErrored' = TRUE
       ELSE /\ wrPromises' = [wrPromises EXCEPT ![i].state = "fulfilled"]
            /\ UNCHANGED wrErrored
    /\ UNCHANGED <<write_promise, wrCall, wrCalls, wrReturned>>
    /\ UNCHANGED <<codec, panicked, lastCall, frameVars, configVars, messageVars,
                   readerVars, sinkVars, lockVars>>

\* self.inner.write_with_chunk(v), the promise stored in self.write_promise
IssueWrite(v) ==
    /\ wrPromises' = Append(wrPromises, HostWrite(v))
    /\ write_promise' = Future(Len(wrPromises) + 1)
    /\ wrCall' = Writing("awaitOwn", v, 0)

\* writer.write(v) is called and polled up to its first await; chunk v is the
\* chunk of the v-th call
WriteStart ==
    /\ wrCall.pos = "idle"
    /\ wrCalls < MaxWrites
    /\ wrCalls' = wrCalls + 1
    /\ LET v == wrCalls + 1
           promise == Awaited(write_promise)
       IN IF promise.some
          THEN /\ write_promise' = NoFuture
               /\ wrCall' = Writing("awaitOld", v, promise.p)
               /\ UNCHANGED wrPromises
          ELSE IssueWrite(v)
    /\ UNCHANGED <<wrErrored, wrReturned>>
    /\ UNCHANGED <<codec, panicked, lastCall, frameVars, configVars, messageVars,
                   readerVars, sinkVars, lockVars>>

\* The suspended write() future is polled and the JsFuture it awaits is ready
WritePoll ==
    /\ wrCall.pos # "idle"
    /\ LET i == IF wrCall.pos = "awaitOld" THEN wrCall.old ELSE write_promise.p
           p == wrPromises[i]
           taken == [wrPromises EXCEPT ![i].taken = TRUE]
       IN
       /\ IsReady(p)
       /\ IF p.state = "rejected"
          THEN /\ wrPromises' = taken
               /\ wrReturned' = Append(wrReturned, WriteResult(wrCall.v, FALSE))
               /\ wrCall' = NoWrite
               /\ UNCHANGED write_promise
          ELSE IF wrCall.pos = "awaitOld"
          THEN /\ wrPromises' = Append(taken, HostWrite(wrCall.v))
               /\ write_promise' = Future(Len(wrPromises) + 1)
               /\ wrCall' = Writing("awaitOwn", wrCall.v, 0)
               /\ UNCHANGED wrReturned
          ELSE /\ wrPromises' = taken
               /\ write_promise' = NoFuture
               /\ wrReturned' = Append(wrReturned, WriteResult(wrCall.v, TRUE))
               /\ wrCall' = NoWrite
    /\ UNCHANGED <<wrErrored, wrCalls>>
    /\ UNCHANGED <<codec, panicked, lastCall, frameVars, configVars, messageVars,
                   readerVars, sinkVars, lockVars>>

\* The suspended write() future is dropped, with the promise it took if it
\* holds one
WriteCancel ==
    /\ wrCall.pos # "idle"
    /\ wrCall' = NoWrite
    /\ UNCHANGED <<wrErrored, wrPromises, write_promise, wrCalls, wrReturned>>
    /\ UNCHANGED <<codec, panicked, lastCall, frameVars, configVars, messageVars,
                   readerVars, sinkVars, lockVars>>

\* poll_write(cx, buf), buf being the chunk of the next accepted write
PollWrite ==
    /\ shut = "none"
    /\ LET d == DesiredSize
           st == PollStored(wrPromises, write_promise)
           after == AfterPoll(wrPromises, write_promise, st)
           v == wrCalls + 1
       IN
       IF ~d.some
       THEN /\ wrLast' = Polled("write", "broken", 0, wrLast)
            /\ UNCHANGED <<wrPromises, write_promise, wrCalls>>
       ELSE IF ~Writable(d.val)
       THEN /\ wrLast' = Polled("write",
                                IF st \in {"pending", "err"} THEN st ELSE "zero",
                                0, wrLast)
            /\ wrPromises' = after.promises
            /\ write_promise' = after.slot
            /\ UNCHANGED wrCalls
       ELSE IF st = "err"
       THEN /\ wrLast' = Polled("write", "err", 0, wrLast)
            /\ wrPromises' = after.promises
            /\ write_promise' = after.slot
            /\ UNCHANGED wrCalls
       ELSE /\ wrCalls < MaxWrites
            /\ wrPromises' = Append(after.promises, HostWrite(v))
            /\ write_promise' = Future(Len(wrPromises) + 1)
            /\ wrCalls' = v
            /\ wrLast' = Polled("write", "ok", v, wrLast)
    /\ UNCHANGED <<wrErrored, wrCall, wrReturned, hwm, sink, shut>>
    /\ UNCHANGED <<codec, panicked, lastCall, frameVars, configVars, messageVars,
                   readerVars, lockVars>>

\* poll_flush(cx)
PollFlush ==
    /\ LET st == PollStored(wrPromises, write_promise)
           after == AfterPoll(wrPromises, write_promise, st)
       IN
       /\ wrLast' = Polled("flush", IF st \in {"pending", "err"} THEN st ELSE "ok",
                           0, wrLast)
       /\ wrPromises' = after.promises
       /\ write_promise' = after.slot
    /\ UNCHANGED <<wrErrored, wrCall, wrCalls, wrReturned, hwm, sink, shut>>
    /\ UNCHANGED <<codec, panicked, lastCall, frameVars, configVars, messageVars,
                   readerVars, lockVars>>

\* poll_shutdown(cx), called by a task that has not called it yet or was
\* woken since its last call
PollShutdown ==
    /\ shut \in {"none", "woken"}
    /\ sink' = IF sink = "open" /\ ~wrErrored THEN "closing" ELSE sink
    /\ LET js_future == JsFutureFrom(sink = "closed" \/ wrErrored) IN
       shut' = IF ~IsReady(js_future) THEN "pending"
               ELSE IF js_future.state = "fulfilled" THEN "ready"
               ELSE "err"
    /\ UNCHANGED <<wrErrored, wrPromises, write_promise, wrCall, wrCalls, wrReturned,
                   hwm, wrLast>>
    /\ UNCHANGED <<codec, panicked, lastCall, frameVars, configVars, messageVars,
                   readerVars, lockVars>>

\* The reaction of the settled closed() promise runs and wakes the task
ClosedNotify ==
    /\ shut = "pending"
    /\ sink = "closed" \/ wrErrored
    /\ shut' = "woken"
    /\ UNCHANGED <<wrErrored, wrPromises, write_promise, wrCall, wrCalls, wrReturned,
                   hwm, sink, wrLast>>
    /\ UNCHANGED <<codec, panicked, lastCall, frameVars, configVars, messageVars,
                   readerVars, lockVars>>

\* The host closes the stream once the writes before the close are done
HostClose ==
    /\ sink = "closing"
    /\ ~wrErrored
    /\ InFlight(wrPromises) = {}
    /\ sink' = "closed"
    /\ UNCHANGED <<wrErrored, wrPromises, write_promise, wrCall, wrCalls, wrReturned,
                   hwm, shut, wrLast>>
    /\ UNCHANGED <<codec, panicked, lastCall, frameVars, configVars, messageVars,
                   readerVars, lockVars>>

\* The underlying sink errors the stream
SinkError ==
    /\ ~wrErrored
    /\ sink # "closed"
    /\ wrErrored' = TRUE
    /\ UNCHANGED <<wrPromises, write_promise, wrCall, wrCalls, wrReturned,
                   hwm, sink, shut, wrLast>>
    /\ UNCHANGED <<codec, panicked, lastCall, frameVars, configVars, messageVars,
                   readerVars, lockVars>>

\* impl From<Writer> for TypedWriter: the Writer is wrapped in ManuallyDrop
\* and a TypedWriter is made of a clone of its inner reference
FromWriter ==
    /\ "Writer" \in live
    /\ live' = ForgetHandle(live, "Writer") \cup {"TypedWriter"}
    /\ UNCHANGED <<releases, lastTry>>
    /\ UNCHANGED <<codec, panicked, lastCall, frameVars, configVars, messageVars,
                   readerVars, writerVars, sinkVars>>

\* impl TryFrom<TypedWriter> for Writer: Err(value) if a write promise is
\* stored, else as From<Writer> the other way round
TryFromTypedWriter ==
    /\ "TypedWriter" \in live
    /\ wrCall.pos = "idle"
    /\ IF write_promise.some
       THEN /\ lastTry' = Tried(TRUE, lastTry)
            /\ UNCHANGED <<live, releases>>
       ELSE /\ lastTry' = Tried(FALSE, lastTry)
            /\ live' = ForgetHandle(live, "TypedWriter") \cup {"Writer"}
            /\ UNCHANGED releases
    /\ UNCHANGED <<codec, panicked, lastCall, frameVars, configVars, messageVars,
                   readerVars, writerVars, sinkVars>>

\* impl Drop for Reader / Writer / TypedWriter: self.inner.release_lock()
HandleDrop(h) ==
    /\ h \in live
    /\ wrCall.pos = "idle" /\ rdCall = "idle"
    /\ live' = live \ {h}
    /\ releases' = releases + 1
    /\ UNCHANGED lastTry
    /\ UNCHANGED <<codec, panicked, lastCall, frameVars, configVars, messageVars,
                   readerVars, writerVars, sinkVars>>

\* A write through the TypedWriter, if there is one
TypedWrite ==
    /\ "TypedWriter" \in live
    /\ \/ WriteStart
       \/ WritePoll
       \/ WriteCancel

\* Decoder and its output sequence
Next ==
    \/ \E e \in JsErrors : OnError(e)
    \/ DecoderOnFrame
    \/ InertCallback
    \/ NextCall
    \/ NextWake
    \/ CancelNext
    \/ DropEngine
    \/ DropConsumer

Spec == Init /\ [][Next]_vars

\* Encoder: submissions, output callbacks and the two handles being dropped
EncNext ==
    \/ \E t \in 0..MaxTs, k \in BOOLEAN : EncoderOnFrame(t, k, NoMeta)
    \/ \E t \in 0..MaxTs, o \in {NoBool, SomeBool(TRUE), SomeBool(FALSE)}, h \in BOOLEAN :
          Encode(t, o, h)
    \/ DropEngine
    \/ DropConsumer

EncSpec == EncInit /\ [][EncNext]_vars

\* Encoder: the negotiated decoder configuration
CfgInit ==
    /\ Construct("encoder", NoTs)
    /\ NoFrameHandles
    /\ Idle
    /\ Holding(VideoEncoderConfigNew(SomeDims(1, 1)))

CfgNext ==
    \/ \E k \in BOOLEAN, m \in Metas : ConfigOnFrame(k, m)
    \/ ConfigCall
    \/ DropEngine
    \/ DropConsumer

CfgSpec == CfgInit /\ [][CfgNext]_vars

\* Encoder: units read with frame() and the negotiated configuration read
\* with config()
PubNext ==
    \/ \E k \in BOOLEAN, m \in Metas : ConfigOnFrame(k, m)
    \/ ConfigCall
    \/ NextCall
    \/ NextWake
    \/ DropEngine

PubSpec == CfgInit /\ [][PubNext]_vars

\* Either engine used after its output sequence may have been dropped
UseInit ==
    /\ \/ Construct("decoder", NoTs) /\ Holding(VideoDecoderConfigNew)
       \/ Construct("encoder", NoTs) /\ Holding(VideoEncoderConfigNew(SomeDims(1, 1)))
    /\ NoFrameHandles
    /\ Idle

UseNext ==
    \/ DecoderOnFrame
    \/ \E t \in 0..MaxTs, k \in BOOLEAN : EncoderOnFrame(t, k, NoMeta)
    \/ \E h \in BOOLEAN : Decode(h)
    \/ \E o \in {NoBool, SomeBool(TRUE)}, h \in BOOLEAN : Encode(MaxTs, o, h)
    \/ \E h \in BOOLEAN : Flush(h)
    \/ QueueSize
    \/ DropEngine
    \/ DropConsumer

UseSpec == UseInit /\ [][UseNext]_vars

\* Frame handles, and the engine handle with a host that reports errors
HandleNext ==
    \/ \E ty \in {"video", "audio"} : FrameFrom(ty)
    \/ \E h \in 1..Len(handles) : VideoFrameClone(h)
    \/ \E h \in 1..Len(handles) : AudioDataClone(h)
    \/ \E h \in 1..Len(handles) : FrameDrop(h)
    \/ \E h \in 1..Len(handles) : AudioDataLeak(h)
    \/ \E h \in 1..Len(handles) : VideoFrameInto(h)
    \/ \E e \in JsErrors : OnError(e)
    \/ DropEngine

HandleSpec == Init /\ [][HandleNext]_vars

\* Configurations: validation and construction
ValidInit ==
    /\ \E c \in DecoderConfigs \cup EncoderConfigs :
          Unbuilt(c.kind) /\ Holding(c)
    /\ NoFrameHandles
    /\ Idle

ValidNext ==
    \/ IsValidCall
    \/ \E n \in BOOLEAN, h \in BOOLEAN : Build(n, h)

ValidSpec == ValidInit /\ [][ValidNext]_vars

\* Messages: a value is converted to a JS value and back
MsgInit ==
    /\ Unbuilt("decoder")
    /\ Holding(VideoDecoderConfigNew)
    /\ NoFrameHandles
    /\ msgIn \in Messages
    /\ NoMessage
    /\ rdStream = <<>>
    /\ NoReader
    /\ NoWriter
    /\ hwm = 1
    /\ NoSink
    /\ Locked({})

MsgNext ==
    \/ IntoMessageCall
    \/ FromMessageCall

MsgSpec == MsgInit /\ [][MsgNext]_vars

\* A stream and a Reader on it, nothing read yet
Reading ==
    /\ Unbuilt("decoder")
    /\ Holding(VideoDecoderConfigNew)
    /\ NoFrameHandles
    /\ msgIn = Typed(TStr, Str(""))
    /\ NoMessage
    /\ rdStream \in Streams
    /\ NoReader
    /\ NoWriter
    /\ hwm = 1
    /\ NoSink
    /\ Locked({"Reader"})

\* Reader::read with futures dropped at will
ReadNext ==
    \/ \E ok \in BOOLEAN : HostReadSettle(ok)
    \/ ReadStart
    \/ ReadPoll
    \/ ReadCancel

ReadSpec == Reading /\ [][ReadNext]_vars

\* AsyncRead for Reader<Uint8Array>
PollNext ==
    \/ \E ok \in BOOLEAN : HostReadSettle(ok)
    \/ Microtask
    \/ \E cap \in 1..MaxCap : PollRead(cap)

PollSpec == Reading /\ [][PollNext]_vars

\* TypedWriter::write with futures dropped at will
WriteInit ==
    /\ Unbuilt("decoder")
    /\ Holding(VideoDecoderConfigNew)
    /\ NoFrameHandles
    /\ msgIn = Typed(TStr, Str(""))
    /\ NoMessage
    /\ rdStream = <<>>
    /\ NoReader
    /\ NoWriter
    /\ hwm = 1
    /\ NoSink
    /\ Locked({"TypedWriter"})

WriteNext ==
    \/ \E ok \in BOOLEAN : HostWriteSettle(ok)
    \/ WriteStart
    \/ WritePoll
    \/ WriteCancel

WriteSpec == WriteInit /\ [][WriteNext]_vars

\* AsyncWrite for TypedWriter<Uint8Array>
SinkInit ==
    /\ Unbuilt("decoder")
    /\ Holding(VideoDecoderConfigNew)
    /\ NoFrameHandles
    /\ msgIn = Typed(TStr, Str(""))
    /\ NoMessage
    /\ rdStream = <<>>
    /\ NoReader
    /\ NoWriter
    /\ hwm \in 1..MaxHwm
    /\ NoSink
    /\ Locked({"TypedWriter"})

SinkNext ==
    \/ \E ok \in BOOLEAN : HostWriteSettle(ok)
    \/ SinkError
    \/ HostClose
    \/ ClosedNotify
    \/ PollWrite
    \/ PollFlush
    \/ PollShutdown

SinkSpec == SinkInit /\ [][SinkNext]_vars

\* Scheduling: the host closes the stream, settled promises run their
\* reactions, and a woken task polls poll_shutdown again
FairSinkSpec ==
    /\ SinkSpec
    /\ WF_vars(HostClose)
    /\ WF_vars(ClosedNotify)
    /\ WF_vars(PollShutdown)

\* The handles of a stream: created, converted, written through and dropped
LockInit ==
    /\ Unbuilt("decoder")
    /\ Holding(VideoDecoderConfigNew)
    /\ NoFrameHandles
    /\ msgIn = Typed(TStr, Str(""))
    /\ NoMessage
    /\ rdStream = <<>>
    /\ NoReader
    /\ NoWriter
    /\ hwm = 1
    /\ NoSink
    /\ \E h \in {"Reader", "Writer", "TypedWriter"} : Locked({h})

LockNext ==
    \/ FromWriter
    \/ TryFromTypedWriter
    \/ \E h \in {"Reader", "Writer", "TypedWriter"} : HandleDrop(h)
    \/ TypedWrite
    \/ \E ok \in BOOLEAN : HostWriteSettle(ok)

LockSpec == LockInit /\ [][LockNext]_vars

\* Scheduling: a woken next()/frame() future is polled again
FairSpec == Spec /\ WF_vars(NextWake)

\* ------------------------------------------------------------- properties
\* The units among a list of read results, in order
UnitsOf(rs) ==
    LET some == SelectSeq(rs, LAMBDA r : r.tag = "Some")
    IN [i \in 1..Len(some) |-> some[i].unit]

IsPrefix(a, b) == Len(a) <= Len(b) /\ SubSeq(b, 1, Len(a)) = a

\* A next()/frame() call has returned in this step
ReadReturned == results' # results
Returned == results'[Len(results')]

\* C1: the units returned by next()/frame() are the units passed to the output
\* callback, in callback order, each once: what was returned is a prefix of
\* what was delivered, and while the output sequence is alive the returned
\* units followed by the queued ones are exactly the delivered ones.
C1_OrderPreserved ==
    /\ IsPrefix(UnitsOf(results), delivered)
    /\ consumer => UnitsOf(results) \o frames = delivered

C1_Witness ==
    /\ Len(delivered) = MaxOutputs
    /\ UnitsOf(results) = delivered
    /\ MaxOutputs >= 2

\* C2: once a read has returned an error, every later read returns that same
\* error.
C2_TerminalIdempotent ==
    \A i, j \in DOMAIN results :
        (i < j /\ results[i].tag = "Err") => results[j] = results[i]

\* C3: a read that finds a unit queued while a change of the terminal-status
\* cell is also pending returns the head of the queue and leaves the change
\* pending; and when a read surfaces an error, every unit delivered so far has
\* already been returned, in order.
C3_DataBeforeClosure ==
    [][ReadReturned =>
        /\ (frames # <<>> /\ version # seen) =>
              /\ Returned = RSome(Head(frames))
              /\ frames' = Tail(frames)
              /\ seen' = seen
        /\ Returned.tag = "Err" => UnitsOf(results) = delivered
      ]_vars

C3_Witness ==
    /\ Len(results) >= 3
    /\ results[1].tag = "Some"
    /\ results[2].tag = "Some"
    /\ results[3].tag = "Err"
    /\ nErrors >= 1
    /\ Len(delivered) = 2

C5_FirstErrorWins ==
    [][~closedCell.ok => closedCell' = closedCell]_vars

\* C6: a suspended read resolves only with the unit at the head of the queue
\* or, the queue being empty, with the error of an unseen change of the cell
\* (while the engine is alive); and once a unit is queued or the cell has
\* changed, the suspended read does resolve.
C6_InFlightRead ==
    /\ [][(pc = "pending" /\ ReadReturned /\ engine) =>
            \/ frames # <<>> /\ Returned = RSome(Head(frames))
            \/ /\ frames = <<>> /\ version # seen
               /\ ~closedCell.ok /\ Returned = RErr(closedCell.err)
         ]_vars
    /\ (pc = "pending" /\ (frames # <<>> \/ version # seen)) ~> (pc = "idle")

C6_Witness ==
    /\ pc = "idle"
    /\ Len(results) >= 2
    /\ results[Len(results)].tag = "Err"
    /\ results[Len(results) - 1].tag = "Some"
    /\ frames = <<>>
    /\ engine

\* C7: after the engine handle was dropped nothing is enqueued any more; with
\* no error recorded a read then returns the queued units in order and then
\* None; and once None was returned every later read returns None.
C7_CleanEnd ==
    /\ [][~engine => (delivered' = delivered /\ Len(frames') <= Len(frames))]_vars
    /\ [][(ReadReturned /\ ~engine /\ closedCell.ok) =>
            Returned = IF frames # <<>> THEN RSome(Head(frames)) ELSE RNone]_vars
    /\ [](\A i, j \in DOMAIN results :
            (i < j /\ results[i].tag = "None") => results[j].tag = "None")

C7_Witness ==
    /\ ~engine /\ closedCell.ok
    /\ Len(results) >= 3
    /\ results[Len(results)] = RNone
    /\ results[Len(results) - 1] = RNone
    /\ results[Len(results) - 2].tag = "Some"
    /\ nCallbacks > Len(delivered)

\* C8: with an error recorded and the engine handle dropped, a read on the
\* drained queue reports the recorded error.
C8_CloseKeepsError ==
    [][(ReadReturned /\ ~engine /\ ~closedCell.ok /\ frames = <<>>) =>
          Returned = RErr(closedCell.err)]_vars

\* C9: with max_gop_duration = D and key_frame unset, encode() forces a key
\* frame exactly when the frame's timestamp is at least T + D, T being the
\* timestamp of the last key unit the host has output.
C9_KeyframePolicy ==
    (/\ lastEncode.called
     /\ ~lastEncode.option.some
     /\ lastEncode.gop.some
     /\ lastEncode.keyOutBefore.some)
    => (lastEncode.hint = SomeBool(TRUE)
          <=> lastEncode.timestamp >= lastEncode.keyOutBefore.val + lastEncode.gop.val)

\* C10: with key_frame = Some(b) encode() hands exactly b to the host and
\* leaves last_keyframe alone; with key_frame unset and no max_gop_duration it
\* sets no hint and leaves last_keyframe alone.
C10_ExplicitOption ==
    [][(nEncodes' # nEncodes /\ ~panicked') =>
        /\ lastEncode'.option.some =>
              /\ lastEncode'.hint = SomeBool(lastEncode'.option.val)
              /\ lastKeyframe' = lastKeyframe
        /\ (~lastEncode'.option.some /\ ~maxGop.some) =>
              /\ lastEncode'.hint = NoBool
              /\ lastKeyframe' = lastKeyframe
      ]_vars

C10_Witness ==
    /\ lastEncode.called
    /\ lastEncode.option = SomeBool(FALSE)
    /\ lastEncode.gop.some
    /\ lastEncode.timestamp - UnwrapOrDefault(lastEncode.lkBefore) >= lastEncode.gop.val
    /\ lastEncode.hint = SomeBool(FALSE)
    /\ lastEncode.lkAfter = lastEncode.lkBefore

\* C11: on every encoder output callback last_keyframe becomes the unit's
\* timestamp if the unit is a key unit strictly newer than the recorded
\* timestamp (an absent record counting as zero, as the code reads it), and is
\* left alone otherwise, whether or not the output sequence is still alive.
C11_PolicyFollowsOutput ==
    [][(nCallbacks' # nCallbacks /\ engine) =>
        LET u == delivered'[Len(delivered')] IN
        lastKeyframe' = IF u.keyframe /\ u.timestamp > UnwrapOrDefault(lastKeyframe)
                        THEN SomeTs(u.timestamp)
                        ELSE lastKeyframe
      ]_vars

C11_Witness ==
    /\ ~consumer
    /\ ~lastEncode.called
    /\ delivered # <<>>
    /\ delivered[Len(delivered)].keyframe
    /\ delivered[Len(delivered)].timestamp > 0
    /\ lastKeyframe = SomeTs(delivered[Len(delivered)].timestamp)
    /\ frames = <<>>

\* The adapter's view of the metadata most recently carried by an output
NegotiatedConfig ==
    IF lastMeta.present THEN SomeConfig(DecoderConfigFrom(lastMeta.config)) ELSE NoConfig

\* C12: until an output callback has carried decoder-config metadata the cell
\* is absent and config() returns absent; the first callback carrying metadata K
\* stores (the conversion of) K, which is what config() then returns; and the
\* value config() returned is a copy that no output callback changes.
C12_ConfigVisibility ==
    /\ [](~lastMeta.present => onConfig = NoConfig)
    /\ [][configRead' # configRead =>
            /\ configRead'.val = onConfig
            /\ ~lastMeta.present => configRead'.val = NoConfig
         ]_vars
    /\ [][(~lastMeta.present /\ lastMeta'.present) =>
            onConfig' = SomeConfig(DecoderConfigFrom(lastMeta'.config))]_vars
    /\ [][nCallbacks' # nCallbacks => configRead' = configRead]_vars

C12_Witness ==
    /\ configRead.called
    /\ configRead.val.some
    /\ onConfig.some
    /\ onConfig # configRead.val
    /\ nCallbacks >= 2

\* C13: the config cell always equals (the conversion of) the metadata carried
\* by the most recent output callback that carried one, whole; callbacks
\* without metadata do not change it.
C13_LastWriteWins == onConfig = NegotiatedConfig

C13_Witness ==
    /\ nCallbacks = 3
    /\ lastMeta = Meta(HostConfig("vp8", 0, 1))
    /\ onConfig = SomeConfig(DecoderConfig("vp8", NoDims))
    /\ configRead = ConfigRead(SomeConfig(DecoderConfig("avc1", SomeDims(1, 1))))

\* C14 (as claimed): once the config cell holds a value no output callback
\* changes it.
C14_SetAtMostOnce ==
    [][onConfig.some => onConfig' = onConfig]_vars

\* C14 (amended): the cell starts absent, never becomes absent again once it
\* holds a value, and changes only in an output callback that carries
\* metadata, to (the conversion of) that metadata.
C14_NeverUnset ==
    /\ [](nCallbacks = 0 => onConfig = NoConfig)
    /\ [][onConfig.some => onConfig'.some]_vars
    /\ [][onConfig' # onConfig =>
            /\ nCallbacks' = nCallbacks + 1
            /\ lastMeta'.present
            /\ onConfig' = SomeConfig(DecoderConfigFrom(lastMeta'.config))
         ]_vars

C14_Witness ==
    /\ nCallbacks = 3
    /\ onConfig = SomeConfig(DecoderConfig("avc1", SomeDims(1, 1)))
    /\ configRead = ConfigRead(SomeConfig(DecoderConfig("vp8", NoDims)))
    /\ lastMeta = Meta(HostConfig("avc1", 1, 1))

\* C15: once the output sequence is dropped while the engine is alive, every
\* output callback returns without a panic, leaves the queue empty (its unit
\* is discarded) and leaves the engine alive; and decode()/encode(), flush()
\* and queue_size() still return Ok whenever the host accepts the call.
C15_DroppedConsumer ==
    /\ [][(~consumer /\ engine /\ nCallbacks' # nCallbacks) =>
            /\ ~panicked'
            /\ engine'
            /\ frames' = <<>>
            /\ delivered' # delivered
            /\ results' = results
         ]_vars
    /\ []((~consumer /\ engine /\ ~panicked) =>
            /\ ENABLED (Flush(TRUE) /\ lastCall' = Call("flush", OkUnit) /\ ~panicked')
            /\ ENABLED (QueueSize /\ lastCall' = Call("queue_size", OkUnit) /\ ~panicked')
            /\ kind = "decoder" =>
                  ENABLED (Decode(TRUE) /\ lastCall' = Call("decode", OkUnit) /\ ~panicked')
            /\ (kind = "encoder" /\ nEncodes < MaxEncodes) =>
                  ENABLED (Encode(MaxTs, NoBool, TRUE) /\ lastEncode'.ok /\ ~panicked'))

C15_Witness ==
    /\ ~consumer /\ engine /\ ~panicked
    /\ closedCell = Err(Dropped)
    /\ nCallbacks = MaxOutputs
    /\ frames = <<>>
    /\ lastCall = Call("decode", OkUnit)

\* close() calls received by all JS frame objects
RECURSIVE SumCloses(_)
SumCloses(objs) ==
    IF objs = <<>> THEN 0 ELSE Head(objs).closes + SumCloses(Tail(objs))

\* The handles whose Drop ran while they held their object
DroppedHandles ==
    {h \in 1..Len(handles) : handles[h].state \in {"dropped", "converted"}}

\* C16: every frame handle dropped while holding its object made exactly one
\* close() call (a live one none), the host saw as many frame close() calls
\* as such handles were dropped, and dropping the engine handle calls the
\* codec's close() exactly once and never panics, also after the host
\* reported an error and closed the codec itself.
C16_OneClosePerHandle ==
    /\ \A h \in 1..Len(handles) :
          /\ handles[h].state \in {"dropped", "converted"} => handles[h].closeCalls = 1
          /\ handles[h].state = "live" => handles[h].closeCalls = 0
    /\ SumCloses(objects) = Cardinality(DroppedHandles)
    /\ engineCloses = IF engine THEN 0 ELSE 1
    /\ ~panicked

C16_Witness ==
    /\ ~engine /\ HostCodecClosed /\ engineCloses = 1
    /\ \E h \in 1..Len(handles) : handles[h].ty = "video" /\ handles[h].state = "dropped"
    /\ \E h \in 1..Len(handles) : handles[h].ty = "audio" /\ handles[h].state = "dropped"

\* The media resource r has been released: every JS object on it is closed
Released(r) ==
    \A o \in 1..Len(objects) : objects[o].res = r => objects[o].closes > 0

\* C17 (as claimed): no live handle refers to a JS object that was closed or
\* to a resource that was released, and no JS object is closed twice.
C17_SharedOwnership ==
    /\ \A h \in 1..Len(handles) :
          handles[h].state = "live" =>
              /\ ~Detached(handles[h].obj)
              /\ ~Released(objects[handles[h].obj].res)
    /\ \A o \in 1..Len(objects) : objects[o].closes <= 1

\* C18 (as claimed): a JS object handed to the caller by AudioData::leak or
\* by the conversion into web_sys::VideoFrame is open and the adapter never
\* closes it.
C18_LeakStaysOpen ==
    \A o \in callerOwned : objects[o].closes = 0

\* Every dimension pair the configuration has is non-zero in both fields
PresentPairsNonZero(c) ==
    /\ c.resolution.some => ~ZeroDim(c.resolution)
    /\ c.display.some => ~ZeroDim(c.display)

\* C19 (as claimed): is_valid() returns Ok when every present pair is
\* non-zero, an absent optional pair not counting, and InvalidDimensions
\* otherwise.
C19_IsValid ==
    validResult.called =>
        validResult.val = IF PresentPairsNonZero(cfgIn) THEN OkUnit
                          ELSE Err(InvalidDimensions)

\* C20 (as claimed): build()/init() never calls the host's configure() with a
\* zero coded or display dimension; such a configuration is answered with
\* InvalidDimensions.
C20_ValidationPrecedes ==
    /\ submitted.called => PresentPairsNonZero(cfgIn)
    /\ (buildResult.called /\ ~PresentPairsNonZero(cfgIn)) =>
          buildResult.val = Err(InvalidDimensions)

\* C30 (as claimed): an encode() call changes last_keyframe only when it
\* forces a key frame under the GOP policy; a call that forces none leaves it
\* unchanged.
C30_EncodeFrame ==
    [][(nEncodes' # nEncodes /\ ~panicked') =>
          (lastKeyframe' # lastKeyframe =>
              /\ ~lastEncode'.option.some
              /\ lastEncode'.gop.some
              /\ lastEncode'.hint = SomeBool(TRUE))
      ]_vars

\* C21 (as claimed): build()/init() never panics; when it returns Err there
\* is no engine and no output sequence and the terminal-status cell was not
\* written; when it returns Ok there is an engine paired with an output
\* sequence whose queue is empty and whose terminal status is unset.
C21_ConfigErrorsSync ==
    /\ ~panicked
    /\ buildResult.called =>
          /\ engine = buildResult.val.ok
          /\ consumer = buildResult.val.ok
          /\ frames = <<>>
          /\ closedCell = OkUnit
          /\ version = 0

\* C22 (as claimed): every encode() call returns (it either submitted its
\* unit or returned the host's Err) and, when it returns Err, the output
\* queue, the terminal-status cell and the negotiated config are unchanged.
C22_SubmissionErrors ==
    [][nEncodes' # nEncodes =>
          /\ ~panicked'
          /\ lastEncode'.called
          /\ ~lastEncode'.ok =>
                /\ frames' = frames
                /\ closedCell' = closedCell
                /\ version' = version
                /\ onConfig' = onConfig
      ]_vars

\* C25 (as claimed): from_message of what into_message returned is Ok of a
\* value equal to the message.
C25_RoundTrip ==
    msgOut.called => msgOut.res = MsgOk(msgIn.val)

RECURSIVE BuffersOf(_, _)
RECURSIVE BuffersOfFields(_, _, _)
\* The ArrayBuffers a value contains, in field order
BuffersOf(T, v) ==
    IF T.t \in {"String", "u32"} THEN <<>>
    ELSE IF T.t = "ArrayBuffer" THEN <<v.n>>
    ELSE IF T.t = "Option"
    THEN (IF v.k = "Some" THEN BuffersOf(T.fields[1].ty, v.items[1]) ELSE <<>>)
    ELSE IF T.t = "struct" THEN BuffersOfFields(T.fields, v.items, Len(T.fields))
    ELSE BuffersOfFields(VariantOf(T, v).fields, v.items, Len(VariantOf(T, v).fields))

BuffersOfFields(fs, vals, n) ==
    IF n = 0 THEN <<>>
    ELSE BuffersOfFields(fs, vals, n - 1) \o BuffersOf(fs[n].ty, vals[n])

\* C26 (as claimed): into_message appends to the transferable array exactly
\* the ArrayBuffers the message contains, each once, in field order.
C26_Transferables ==
    msgJs.called => msgTransfer = BuffersOf(msgIn.ty, msgIn.val)

\* The Ok values among the results rs
OkValues(rs) == SelectSeq(rs, LAMBDA r : r.ok)

\* What the first n successful reads of stream s return
Expected(s, n) ==
    [i \in 1..n |-> IF i <= Len(s) THEN OkSome(ChunkAt(s, i)) ELSE OkNone]

\* The host reads the Reader issued that the host has not answered
Outstanding ==
    {i \in 1..Len(rdPromises) : rdPromises[i].host /\ rdPromises[i].state = "pending"}

\* C27: Reader::read is cancel-safe. At most one host read is outstanding at
\* any time; a read() called while a host read is stored (its read() future
\* was dropped) awaits that one and issues none, so the Reader never issues
\* more host reads than reads completed plus one; and the values completed
\* read() calls return are the chunks of the stream in order, none skipped,
\* none twice, then None once the stream is done.
C27_CancelSafeRead ==
    /\ [](Cardinality(Outstanding) <= 1)
    /\ [](Len(rdPromises) <= Len(rdReturned) + 1)
    /\ [](OkValues(rdReturned) = Expected(rdStream, Len(OkValues(rdReturned))))
    /\ [][rdCalls' > rdCalls /\ read.some =>
             read' = read /\ rdPromises' = rdPromises]_vars

\* read() futures were dropped, and the reads that completed returned both
\* chunks of a two-chunk stream and then None
C27_Witness ==
    /\ Len(rdStream) = 2
    /\ rdCalls > Len(rdReturned)
    /\ rdCall = "idle"
    /\ rdReturned = <<OkSome(ChunkAt(rdStream, 1)), OkSome(ChunkAt(rdStream, 2)), OkNone>>

RECURSIVE BytesFilled(_)
\* The bytes the poll_read calls rs filled, in order
BytesFilled(rs) ==
    IF rs = <<>> THEN <<>> ELSE BytesFilled(SubSeq(rs, 1, Len(rs) - 1)) \o rs[Len(rs)].val

\* The bytes the Reader holds in its stored read
Retained ==
    IF read.some /\ ~rdPromises[read.p].taken /\ rdPromises[read.p].state # "rejected"
    THEN rdPromises[read.p].value
    ELSE <<>>

\* The leftovers not delivered yet
Leftovers ==
    {i \in 1..Len(rdPromises) : ~rdPromises[i].host /\ ~rdPromises[i].taken}

\* C29: AsyncRead for Reader<Uint8Array> is lossless and order-preserving.
\* For every stream and every sequence of buffer capacities (at least 1) the
\* bytes filled so far, then the bytes the Reader retains, then the bytes of
\* the chunks the stream has not handed out are the bytes of the stream in
\* order; once poll_read has reported the end of the stream the bytes filled
\* are all of them; and while a leftover is retained it is the stored read,
\* no host read is outstanding and none is issued.
C29_LosslessPollRead ==
    /\ [](BytesFilled(rdReturned) \o Retained \o Rest(rdStream, rdPos)
              = Rest(rdStream, 0))
    /\ []((\E i \in 1..Len(rdPromises) : rdPromises[i].done /\ rdPromises[i].taken) =>
              BytesFilled(rdReturned) = Rest(rdStream, 0))
    /\ [](\A i \in Leftovers : read = Future(i) /\ Outstanding = {})
    /\ [][Leftovers # {} =>
             \A i \in 1..Len(rdPromises') : rdPromises'[i].host => i <= Len(rdPromises)]_vars

\* A chunk of two bytes met a buffer of one: the leftover byte came with the
\* next call, then the next chunk, then the end of the stream
C29_Witness ==
    /\ rdStream = <<2, 1>>
    /\ rdReturned = <<ReadyFilled(<<1>>), ReadyFilled(<<2>>), ReadyFilled(<<3>>),
                      ReadyFilled(<<>>)>>

\* C31 (as claimed): out-of-order submission is harmless. Every encode() call
\* completes without a panic, one whose timestamp is earlier than
\* last_keyframe (max_gop_duration set, key_frame unset) forces no key frame,
\* and no encode() call and no output callback moves last_keyframe backwards.
C31_OutOfOrderHarmless ==
    [][/\ nEncodes' # nEncodes => ~panicked'
       /\ (/\ nEncodes' # nEncodes
           /\ lastEncode'.called
           /\ ~lastEncode'.option.some
           /\ lastEncode'.gop.some
           /\ lastEncode'.timestamp < UnwrapOrDefault(lastKeyframe))
          => lastEncode'.hint # SomeBool(TRUE)
       /\ UnwrapOrDefault(lastKeyframe') >= UnwrapOrDefault(lastKeyframe)
      ]_vars

\* C32: an output callback that runs after the receiver of the output queue
\* was dropped leaves Error::Dropped in the terminal-status cell and raises a
\* change notification; an output callback that runs while the receiver is
\* alive leaves the cell and its version as they were.
C32_DroppedRecorded ==
    [][delivered' # delivered =>
          IF consumer
          THEN closedCell' = closedCell /\ version' = version
          ELSE closedCell' = Err(Dropped) /\ version' = version + 1
      ]_vars

\* The host had reported an error, the output sequence was dropped, and the
\* next output callback replaced that error with Dropped
C32_Witness ==
    /\ ~consumer /\ engine
    /\ nErrors > 0
    /\ delivered # <<>>
    /\ closedCell = Err(Dropped)

\* C33: the terminal-status cell holds Ok(()) until its first write, every
\* write stores an Err and the version moves only with a write; so whenever
\* an unseen change makes next()/frame() take the closure branch the cell
\* holds an error, and the unwrap never panics.
C33_CellOnlyErr ==
    /\ [](closedCell.ok => version = 0)
    /\ [](version # seen => ~closedCell.ok)
    /\ [][(closedCell' # closedCell \/ version' # version) =>
             ~closedCell'.ok /\ version' = version + 1]_vars
    /\ [](~panicked)

\* next() took the closure branch and returned the error the cell holds
C33_Witness ==
    /\ ~panicked
    /\ ~closedCell.ok
    /\ seen = version
    /\ results # <<>>
    /\ results[Len(results)] = RErr(closedCell.err)

\* The units frame() has returned whose output callback carried metadata
ReturnedCarriers ==
    {i \in 1..Len(results) : results[i].tag = "Some" /\ results[i].unit.id \in carried}

\* C34: the config is published before the unit that carried it. Whenever a
\* unit whose output callback carried decoder-config metadata is in the
\* output queue or has been returned by frame(), the config cell is present;
\* and a config() call made after frame() returned such a unit yields a
\* present value, the conversion of the metadata most recently carried.
C34_ConfigBeforeUnit ==
    /\ [](\A i \in 1..Len(frames) : frames[i].id \in carried => onConfig.some)
    /\ [](ReturnedCarriers # {} => onConfig.some)
    /\ [][(configRead' # configRead /\ ReturnedCarriers # {}) =>
             /\ configRead'.val.some
             /\ configRead'.val = SomeConfig(DecoderConfigFrom(lastMeta.config))]_vars

\* frame() returned the first unit, whose callback carried metadata; a later
\* callback carried another; config() called then returned the later one
C34_Witness ==
    /\ 1 \in ReturnedCarriers
    /\ carried = {1, 2}
    /\ lastMeta = Meta(HostConfig("vp8", 0, 1))
    /\ configRead = ConfigRead(SomeConfig(DecoderConfig("vp8", NoDims)))

Unreported ==
    /\ \E i \in 1..Len(wrPromises) : wrPromises[i].state = "rejected"
    /\ \A i \in 1..Len(wrPromises) : ~(wrPromises[i].state = "rejected" /\ wrPromises[i].taken)

C37_ShutdownTerminates ==
    (shut # "none" /\ sink = "closed") ~> (shut \in {"ready", "err"})

\* C38: the lock of a stream is released exactly once. At any time either one
\* handle holds the lock and nothing was released, or no handle is left and
\* releaseLock() was called once; a conversion between Writer and TypedWriter
\* releases nothing and leaves one handle; and Writer::try_from(TypedWriter)
\* is refused exactly when a write promise is stored, leaving the TypedWriter
\* and its promise as they were.
C38_LockReleasedOnce ==
    /\ [](Cardinality(live) + releases = 1)
    /\ [][(live' # live /\ live' # {}) => releases' = releases]_vars
    /\ [][lastTry' # lastTry =>
             /\ lastTry'.refused <=> write_promise.some
             /\ lastTry'.refused =>
                   /\ live' = live
                   /\ write_promise' = write_promise
                   /\ wrPromises' = wrPromises
             /\ ~lastTry'.refused => live' = {"Writer"} /\ releases' = releases
         ]_vars

\* A write through a TypedWriter was left stored, the conversion to a Writer
\* was refused, and the TypedWriter was dropped
C38_Witness ==
    /\ live = {}
    /\ releases = 1
    /\ lastTry.refused
    /\ write_promise.some

\* C39 (as claimed): no consumed promise is left behind. Whenever no read(),
\* poll_read or write() call is in progress, the promise stored in the
\* Reader or the TypedWriter, if any, has not had its result taken.
C39_NoConsumedPromise ==
    /\ (rdCall = "idle" /\ read.some) => ~rdPromises[read.p].taken
    /\ (wrCall.pos = "idle" /\ write_promise.some) => ~wrPromises[write_promise.p].taken
====
